---- MODULE Spec2Model ----
(***************************************************************************)
(* Verification model of the VapourBox worker (worker/src):                *)
(*   - main / run_worker / run_preview_mode           (main.rs)            *)
(*   - PipelineExecutor::execute / generate_preview   (pipeline_executor)  *)
(*   - ScriptGenerator template substitution          (script_generator)   *)
(*                                                                         *)
(* Spec     : one run of the worker binary (full run or --preview), with   *)
(*            the two child processes, the background stderr reader and    *)
(*            the signal handler as concurrent actors.                     *)
(* SpecGen  : ScriptGenerator::generate / generate_preview applied to a    *)
(*            bounded family of jobs and to both built-in templates.       *)
(***************************************************************************)
EXTENDS Integers, Sequences, FiniteSets, TLC

VARIABLES
    pc,                 \* position of the calling (main) thread
    args,               \* parsed command line: preview, frame, config
    cancelled,          \* main.rs: Arc<AtomicBool> set by the signal handler
    handlerInstalled,   \* ctrlc::set_handler succeeded
    job,                \* the VideoJob fields the executor reads
    events,             \* JSON messages written by ProgressReporter, in order
    procs,              \* the two child processes (OS view)
    vspipe_process,     \* PipelineExecutor.vspipe_process: "None" | "Some"
    ffmpeg_process,     \* PipelineExecutor.ffmpeg_process: "None" | "Some"
    executor,           \* "none" | "live" | "dropped"
    tpc,                \* background reader of stage A stderr: idle|run|done
    total_frames,       \* Arc<AtomicI32> written by the background reader
    vsRead,             \* lines of stage A stderr consumed so far
    ffRead,             \* lines of stage B stderr consumed so far
    line,               \* the stage B line just read by the calling thread
    current_frame,      \* execute local
    current_fps,        \* execute local
    elapsed,            \* last_progress_time.elapsed() in ms, saturating at
                        \* progress_interval (only the comparison reads it)
    vspipe_status,      \* execute local: <<>> or <<code>>
    ffmpeg_status,      \* execute local: <<>> or <<code>>
    result,             \* value returned by execute / run_worker / generate_preview
    files,              \* output file, generated scripts, preview temp dir
    removeCalls,        \* number of fs::remove_file(job.output_path) calls made
    exitCode,           \* ExitCode returned by main, -1 while running
    gpc,                \* script generation: next pass to apply
    gjob,               \* script generation: the job being rendered
    entry,              \* script generation: "generate" | "generate_preview"
    script,             \* script generation: the script text as tokens
    senders,            \* ProgressReporter: each thread's place in send_message
    output_lock,        \* ProgressReporterInner.output_lock: its holder
    stdout_lock,        \* the lock of io::stdout(): its holder
    stdout,             \* what was written to stdout, piece by piece
    filters,            \* FilterRegistry.filters: id -> schema
    load_order,         \* FilterRegistry.load_order
    calls               \* FilterRegistry: the ids registered so far, in call order

workerVars == <<pc, args, cancelled, handlerInstalled, job, events, procs,
                vspipe_process, ffmpeg_process, executor, tpc, total_frames,
                vsRead, ffRead, line, current_frame, current_fps, elapsed,
                vspipe_status, ffmpeg_status, result, files, removeCalls,
                exitCode>>
genVars == <<gpc, gjob, entry, script>>
reporterVars == <<senders, output_lock, stdout_lock, stdout>>
registryVars == <<filters, load_order, calls>>
libVars == <<reporterVars, registryVars>>
vars == <<pc, args, cancelled, handlerInstalled, job, events, procs,
          vspipe_process, ffmpeg_process, executor, tpc, total_frames,
          vsRead, ffRead, line, current_frame, current_fps, elapsed,
          vspipe_status, ffmpeg_status, result, files, removeCalls,
          exitCode, gpc, gjob, entry, script, senders, output_lock,
          stdout_lock, stdout, filters, load_order, calls>>

(***************************************************************************)
(* Bounds                                                                  *)
(***************************************************************************)
MaxVsLines == 1
MaxFfLines == 1

(***************************************************************************)
(* Text helpers.  Messages and paths are sequences of words; a substring   *)
(* search for a word is a search for that element.                         *)
(***************************************************************************)
Contains(msg, word) == \E i \in DOMAIN msg : msg[i] = word

Range(s) == {s[i] : i \in DOMAIN s}

(***************************************************************************)
(* Inputs of a run                                                         *)
(***************************************************************************)
\* Paths given with --config; the second has a directory named "cancelled".
ConfigPaths == { <<"jobs", "job.json">>, <<"cancelled", "job.json">> }

\* Where DependencyLocator finds the two binaries.
VspipePath == <<"deps", "vapoursynth", "vspipe">>
FfmpegPath == <<"deps", "ffmpeg", "ffmpeg">>

\* VideoJob fields read by execute: qtgmc_parameters.fps_divisor and
\* total_frames (Option<i32> as a sequence of length 0 or 1); deinterlace is
\* effective_pipeline().deinterlace.enabled, which decides whether the script
\* run by stage A deinterlaces at all.
Jobs == [fps_divisor : {1, 2}, total_frames : {<<>>, <<1200>>},
         deinterlace : BOOLEAN]
NoJob == [fps_divisor |-> 1, total_frames |-> <<>>, deinterlace |-> TRUE]

\* Exit codes a child can report; -1 is status.code() == None (killed by a
\* signal), mapped by unwrap_or(-1).
ExitCodes == {0, 1, 130, 141, -1}

\* A whitespace-separated word "<pre><number>" of a stage B diagnostic line;
\* ok is FALSE when the text after pre does not parse as a number (empty
\* because the number is padded into the next word, or not numeric).
Word(pre, num, ok) == [pre |-> pre, num |-> num, ok |-> ok]

\* "frame=500 fps=25.0", "frame=  123 fps= 45.0", "fps=30.0", "speed=1.2x"
FfLines == { << Word("frame=", 500, TRUE), Word("fps=", 25, TRUE) >>,
             << Word("frame=", 0, FALSE), Word("", 123, TRUE),
                Word("fps=", 0, FALSE), Word("", 45, TRUE) >>,
             << Word("fps=", 30, TRUE) >>,
             << Word("speed=", 0, FALSE) >> }
NoLine == << >>

\* Stage A diagnostic lines: sentinel flag and the comma-separated parts
\* after it.  "INPUT_INFO:frames=1000,fps_num=25,fps_den=1",
\* "INPUT_INFO:frames=n/a", "Script evaluation done"
VsLines == { [info |-> TRUE,  parts |-> << Word("frames=", 1000, TRUE),
                                           Word("fps_num=", 25, TRUE),
                                           Word("fps_den=", 1, TRUE) >>],
             [info |-> TRUE,  parts |-> << Word("frames=", 0, FALSE) >>],
             [info |-> FALSE, parts |-> << Word("frames=", 77, TRUE) >>] }

(***************************************************************************)
(* ProgressReporter: every send_* appends one message to stdout.           *)
(***************************************************************************)
Event(kind, msg, success, info) ==
    [kind |-> kind, msg |-> msg, success |-> success, info |-> info]

\* msg is the message text as a sequence of words.
send_log(ev, msg) == Append(ev, Event("log", msg, FALSE, <<>>))
send_error(ev, msg) == Append(ev, Event("error", msg, FALSE, <<>>))
send_complete(ev, success) == Append(ev, Event("complete", <<>>, success, <<>>))
send_progress(ev, info) == Append(ev, Event("progress", <<>>, FALSE, info))

RECURSIVE send_logs(_, _)
send_logs(ev, msgs) ==
    IF msgs = <<>> THEN ev ELSE send_logs(send_log(ev, Head(msgs)), Tail(msgs))

Count(ev, kind) == Cardinality({i \in DOMAIN ev : ev[i].kind = kind})

(***************************************************************************)
(* Results (anyhow::Result): ok flag and the outermost message, which is   *)
(* what e.to_string() yields.                                              *)
(***************************************************************************)
Ok == [ok |-> TRUE, msg |-> <<>>]
Err(msg) == [ok |-> FALSE, msg |-> msg]
NoResult == [ok |-> TRUE, msg |-> <<"pending">>]

JobCancelled == Err(<<"Job", "cancelled">>)
ExitedWithCode(proc, code) == Err(<<proc, "exited", "with", "code", ToString(code)>>)

(***************************************************************************)
(* Child processes.  alive: running in the OS; killed: Child::kill() was   *)
(* called on the handle.  The exit code is observed by wait().             *)
(***************************************************************************)
NoProc == [spawned |-> FALSE, alive |-> FALSE, killed |-> FALSE]
Spawned == [spawned |-> TRUE, alive |-> TRUE, killed |-> FALSE]

Kill(p) == [p EXCEPT !.killed = TRUE]

\* A terminate that signals stage B only.
terminate_ffmpeg_only(vs, ff, ps) ==
    [vspipe |-> ps.vspipe,
     ffmpeg |-> IF ff = "Some" THEN Kill(ps.ffmpeg) ELSE ps.ffmpeg]

\* PipelineExecutor::terminate: kill whatever the two Option<Child> fields hold.
terminate(vs, ff, ps) ==
    [vspipe |-> IF vs = "Some" THEN Kill(ps.vspipe) ELSE ps.vspipe,
     ffmpeg |-> IF ff = "Some" THEN Kill(ps.ffmpeg) ELSE ps.ffmpeg]

NoFiles == [output |-> FALSE, script |-> FALSE, temp_dir |-> FALSE,
            preview_script |-> FALSE]

InitWorker ==
    /\ pc = "main"
    /\ args \in [preview : BOOLEAN, frame : BOOLEAN, config : ConfigPaths]
    /\ cancelled = FALSE
    /\ handlerInstalled = FALSE
    /\ job = NoJob
    /\ events = <<>>
    /\ procs = [vspipe |-> NoProc, ffmpeg |-> NoProc]
    /\ vspipe_process = "None"
    /\ ffmpeg_process = "None"
    /\ executor = "none"
    /\ tpc = "idle"
    /\ total_frames = 0
    /\ vsRead = 0
    /\ ffRead = 0
    /\ line = NoLine
    /\ current_frame = 0
    /\ current_fps = 0
    /\ elapsed = 0
    /\ vspipe_status = <<>>
    /\ ffmpeg_status = <<>>
    /\ result = NoResult
    /\ files = NoFiles
    /\ removeCalls = 0
    /\ exitCode = -1

(***************************************************************************)
(* main (main.rs:48-88)                                                    *)
(***************************************************************************)
UnchangedExec ==
    UNCHANGED <<procs, vspipe_process, ffmpeg_process, tpc, total_frames,
                vsRead, ffRead, line, current_frame, current_fps, elapsed,
                vspipe_status, ffmpeg_status>>

\* main.rs:49-54: parse the arguments, branch on --preview.
MainStart ==
    /\ pc = "main"
    /\ pc' = IF args.preview THEN "run_preview_mode" ELSE "set_handler"
    /\ UNCHANGED <<args, cancelled, handlerInstalled, job, events, executor,
                   result, files, removeCalls, exitCode, genVars, libVars>>
    /\ UnchangedExec

\* What main does when ctrlc::set_handler fails (main.rs:65-68).
HandlerFailure(ev) ==
    [events |-> send_error(ev, <<"Failed", "to", "set", "signal", "handler">>),
     exitCode |-> 1]

\* main.rs:56-68
SetHandler ==
    /\ pc = "set_handler"
    /\ \/ /\ handlerInstalled' = TRUE
          /\ pc' = "run_worker"
          /\ UNCHANGED <<events, exitCode>>
       \/ /\ events' = HandlerFailure(events).events
          /\ exitCode' = HandlerFailure(events).exitCode
          /\ pc' = "exit"
          /\ UNCHANGED handlerInstalled
    /\ UNCHANGED <<args, cancelled, job, executor, result, files, removeCalls,
                   genVars, libVars>>
    /\ UnchangedExec

\* The handler closure of main.rs:63-65, run on SIGINT/SIGTERM.
Signal ==
    /\ handlerInstalled
    /\ pc # "exit"
    /\ ~cancelled
    /\ cancelled' = TRUE
    /\ UNCHANGED <<pc, args, handlerInstalled, job, events, executor, result,
                   files, removeCalls, exitCode, genVars, libVars>>
    /\ UnchangedExec

\* e.to_string().contains("cancelled") (main.rs:77)
IsCancellation(e) == Contains(e.msg, "cancelled")

\* The match on run_worker's result (main.rs:70-87): events sent and exit code.
MainMatch(ev, r) ==
    IF r.ok
    THEN [events |-> send_complete(ev, TRUE), exitCode |-> 0]
    ELSE IF IsCancellation(r)
         THEN [events |-> send_complete(
                              send_log(ev, <<"Job", "cancelled", "by", "user">>),
                              FALSE),
               exitCode |-> 130]
         ELSE [events |-> send_complete(send_error(ev, r.msg), FALSE),
               exitCode |-> 1]

MainFinish ==
    /\ pc = "main_match"
    /\ events' = MainMatch(events, result).events
    /\ exitCode' = MainMatch(events, result).exitCode
    /\ pc' = "exit"
    /\ UNCHANGED <<args, cancelled, handlerInstalled, job, executor, result,
                   files, removeCalls, genVars, libVars>>
    /\ UnchangedExec

(***************************************************************************)
(* run_worker (main.rs:141-207)                                            *)
(***************************************************************************)
\* run_worker returns Err(e) by `?`: its locals are dropped, control is back
\* in main's match.
ReturnErr(e) ==
    /\ result' = e
    /\ pc' = "main_match"

\* main.rs:146-163: read and parse the config, log the job.
LoadConfig ==
    /\ pc = "run_worker"
    /\ \/ /\ events' = send_log(events, <<"Loading", "job", "configuration...">>)
          /\ ReturnErr(Err(<<"Failed", "to", "read", "config", "file:">> \o args.config))
          /\ UNCHANGED job
       \/ /\ events' = send_log(events, <<"Loading", "job", "configuration...">>)
          /\ ReturnErr(Err(<<"Failed", "to", "parse", "job", "configuration">>))
          /\ UNCHANGED job
       \/ /\ job' \in Jobs
          /\ events' = send_logs(events, << <<"Loading", "job", "configuration...">>,
                                            <<"Processing:", "input">>,
                                            <<"QTGMC", "params:">> >>)
          /\ pc' = "generate_script"
          /\ UNCHANGED result
    /\ UNCHANGED <<args, cancelled, handlerInstalled, executor, files,
                   removeCalls, exitCode, genVars, libVars>>
    /\ UnchangedExec

\* main.rs:165-175: ScriptGenerator::new()? and generate(&job)?; the script
\* file is kept ("Keep temp script for debugging").
GenerateScript ==
    /\ pc = "generate_script"
    /\ \/ /\ events' = send_log(events, <<"Generating", "VapourSynth", "script...">>)
          /\ ReturnErr(Err(<<"current_exe", "failed">>))
          /\ UNCHANGED files
       \/ /\ events' = send_log(events, <<"Generating", "VapourSynth", "script...">>)
          /\ ReturnErr(Err(<<"Failed", "to", "generate", "VapourSynth", "script">>))
          /\ UNCHANGED files
       \/ /\ events' = send_logs(events, << <<"Generating", "VapourSynth", "script...">>,
                                            <<"Script", "written", "to:">> >>)
          /\ files' = [files EXCEPT !.script = TRUE]
          /\ pc' = "new_executor"
          /\ UNCHANGED result
    /\ UNCHANGED <<args, cancelled, handlerInstalled, job, executor,
                   removeCalls, exitCode, genVars, libVars>>
    /\ UnchangedExec

\* main.rs:177-179 and PipelineExecutor::new (pipeline_executor.rs:29-37)
NewExecutor ==
    /\ pc = "new_executor"
    /\ events' = send_log(events, <<"Starting", "encoding", "pipeline...">>)
    /\ \/ /\ ReturnErr(Err(<<"Failed", "to", "get", "executable", "path">>))
          /\ UNCHANGED executor
       \/ /\ executor' = "live"
          /\ pc' = "execute"
          /\ UNCHANGED result
    /\ UNCHANGED <<args, cancelled, handlerInstalled, job, files, removeCalls,
                   exitCode, genVars, libVars>>
    /\ UnchangedExec

(***************************************************************************)
(* PipelineExecutor::execute (pipeline_executor.rs:40-215)                 *)
(***************************************************************************)
\* execute returns r to run_worker (main.rs:181).
ExecuteReturns(r) ==
    /\ result' = r
    /\ pc' = "execute_ret"

\* The locals of execute that go out of scope when it returns.
LocalsGone ==
    /\ line' = NoLine
    /\ current_frame' = 0
    /\ current_fps' = 0
    /\ elapsed' = 0
    /\ ffRead' = 0
    /\ vspipe_status' = <<>>
    /\ ffmpeg_status' = <<>>

UnchangedMain ==
    UNCHANGED <<args, cancelled, handlerInstalled, job, executor, removeCalls,
                exitCode, genVars, libVars>>

\* pipeline_executor.rs:44-65: resolve both binaries, log the environment.
ExecResolve ==
    /\ pc = "execute"
    /\ \/ /\ ExecuteReturns(Err(<<"vspipe", "not", "found", "in">> \o VspipePath))
          /\ UNCHANGED events
       \/ /\ ExecuteReturns(Err(<<"ffmpeg", "not", "found", "at">> \o FfmpegPath))
          /\ UNCHANGED events
       \/ /\ events' = send_logs(events, << <<"vspipe:", "ffmpeg:">>,
                                            <<"PYTHONHOME:">>,
                                            <<"PYTHONPATH:">>,
                                            <<"VAPOURSYNTH_PLUGIN_PATH:">> >>)
          /\ pc' = "spawn_vspipe"
          /\ UNCHANGED result
    /\ UNCHANGED <<files>>
    /\ UnchangedMain
    /\ UnchangedExec

\* pipeline_executor.rs:67-78: spawn stage A into the local `vspipe`.  Both
\* pipes were requested with Stdio::piped(), so the two take() calls succeed.
SpawnVspipe ==
    /\ pc = "spawn_vspipe"
    /\ \/ /\ ExecuteReturns(Err(<<"Failed", "to", "start", "vspipe:">> \o VspipePath))
          /\ UNCHANGED procs
       \/ /\ procs' = [procs EXCEPT !.vspipe = Spawned]
          /\ pc' = "spawn_ffmpeg"
          /\ UNCHANGED result
    /\ UNCHANGED <<events, files, vspipe_process, ffmpeg_process, tpc,
                   total_frames, vsRead, ffRead, line, current_frame,
                   current_fps, elapsed, vspipe_status, ffmpeg_status>>
    /\ UnchangedMain

\* The two Option<Child> fields after stage B was spawned
\* (pipeline_executor.rs:95-96).
StoreChildren == [vspipe_process |-> "Some", ffmpeg_process |-> "Some"]

\* pipeline_executor.rs:80-127: spawn stage B; on failure `?` returns and the
\* local `vspipe` Child is dropped, which does not kill the process.  On
\* success the children move into self, the background reader starts and
\* last_progress_time is taken.  Stage B creates the output file (-y).
SpawnFfmpeg ==
    /\ pc = "spawn_ffmpeg"
    /\ \/ /\ ExecuteReturns(Err(<<"Failed", "to", "start", "ffmpeg:">> \o FfmpegPath))
          /\ UNCHANGED <<procs, vspipe_process, ffmpeg_process, tpc, elapsed,
                         files>>
       \/ /\ procs' = [procs EXCEPT !.ffmpeg = Spawned]
          /\ vspipe_process' = StoreChildren.vspipe_process
          /\ ffmpeg_process' = StoreChildren.ffmpeg_process
          /\ tpc' = "run"
          /\ elapsed' = 0
          /\ files' = [files EXCEPT !.output = TRUE]
          /\ pc' = "read"
          /\ UNCHANGED result
    /\ UNCHANGED <<events, total_frames, vsRead, ffRead, line, current_frame,
                   current_fps, vspipe_status, ffmpeg_status>>
    /\ UnchangedMain

\* A child exits on its own or because it was killed.
ProcExit(p) ==
    /\ pc # "exit"
    /\ procs[p].alive
    /\ procs' = [procs EXCEPT ![p].alive = FALSE]
    /\ UNCHANGED <<pc, events, result, files, vspipe_process, ffmpeg_process,
                   tpc, total_frames, vsRead, ffRead, line, current_frame,
                   current_fps, elapsed, vspipe_status, ffmpeg_status>>
    /\ UnchangedMain

\* The total stored by the background reader for one stage A line
\* (pipeline_executor.rs:109-118): each "frames=<int>" part of an
\* INPUT_INFO: line stores its value, later parts overwriting earlier ones.
RECURSIVE StoreFrames(_, _)
StoreFrames(parts, total) ==
    IF parts = <<>> THEN total
    ELSE StoreFrames(Tail(parts),
                     IF Head(parts).pre = "frames=" /\ Head(parts).ok
                     THEN Head(parts).num ELSE total)

\* A parse that does not look for the INPUT_INFO: sentinel.
ParseInputInfo_any_line(l, total) == StoreFrames(l.parts, total)

\* pipeline_executor.rs:109: if line.starts_with("INPUT_INFO:")
ParseInputInfo(l, total) == IF l.info THEN StoreFrames(l.parts, total) ELSE total

\* One iteration of the background reader (pipeline_executor.rs:103-120),
\* with at most n lines read from the set `lines`: a line is logged as
\* Logged[line] and parsed; end of stream or a read error ends the thread
\* (map_while(Result::ok)).
VspipeReaderOf(n, lines, Logged) ==
    /\ tpc = "run"
    /\ pc # "exit"
    /\ \/ /\ vsRead < n
          /\ \E l \in lines :
                /\ events' = send_log(events, Logged[l])
                /\ total_frames' = ParseInputInfo(l, total_frames)
          /\ vsRead' = vsRead + 1
          /\ UNCHANGED tpc
       \/ /\ ~procs.vspipe.alive
          /\ tpc' = "done"
          /\ UNCHANGED <<events, total_frames, vsRead>>
       \/ /\ tpc' = "done"
          /\ UNCHANGED <<events, total_frames, vsRead>>
    /\ UNCHANGED <<pc, result, files, procs, vspipe_process, ffmpeg_process,
                   ffRead, line, current_frame, current_fps, elapsed,
                   vspipe_status, ffmpeg_status>>
    /\ UnchangedMain

\* The reader in a run of the worker; the text of the line, which the log
\* message ends with, is left out of the event.
VspipeReader ==
    VspipeReaderOf(MaxVsLines, VsLines, [l \in VsLines |-> <<"vspipe", "stderr:">>])

\* Duration::from_millis(500)
progress_interval == 500

\* Time a blocking line read may take, in ms.
ReadDelays == {0, 250, 500}

Min(a, b) == IF a < b THEN a ELSE b

\* The item of reader.lines() that is Err(_): a failed read, or a line that
\* is not valid UTF-8 (pipeline_executor.rs:130).
ReadFailed == << Word("io::Error", 0, FALSE) >>

\* pipeline_executor.rs:130, the iterator step of the for loop, with at most
\* n lines read: a line, or the end of the loop on end of stream (stage B
\* gone) or on a read error, which map_while(Result::ok) turns into the end
\* of the iteration.
ReadLineUpTo(n) ==
    /\ pc = "read"
    /\ \/ /\ ffRead < n
          /\ line' \in FfLines
          /\ ffRead' = ffRead + 1
          /\ \E d \in ReadDelays : elapsed' = Min(elapsed + d, progress_interval)
          /\ pc' = "process_line"
       \/ /\ ~procs.ffmpeg.alive
          /\ pc' = "join"
          /\ UNCHANGED <<line, ffRead, elapsed>>
       \/ /\ line' = ReadFailed
          /\ pc' = "join"
          /\ UNCHANGED <<ffRead, elapsed>>
    /\ UNCHANGED <<events, result, files, procs, vspipe_process,
                   ffmpeg_process, tpc, total_frames, vsRead, current_frame,
                   current_fps, vspipe_status, ffmpeg_status>>
    /\ UnchangedMain

ReadLine == ReadLineUpTo(MaxFfLines)

\* pipeline_executor.rs:139-147
ParseFrame(l, cur) ==
    IF Len(l) > 0 /\ l[1].pre = "frame=" /\ l[1].ok THEN l[1].num ELSE cur

\* pipeline_executor.rs:148-156
RECURSIVE ParseFps(_, _)
ParseFps(l, cur) ==
    IF l = <<>> THEN cur
    ELSE ParseFps(Tail(l), IF Head(l).pre = "fps=" /\ Head(l).ok
                           THEN Head(l).num ELSE cur)

\* pipeline_executor.rs:160-166
EffectiveTotal(total, j) ==
    IF total > 0
    THEN (IF j.fps_divisor = 1 THEN total * 2 ELSE total)
    ELSE (IF j.total_frames = <<>> THEN 0 ELSE j.total_frames[1])

\* An eta without the guard effective_total > current_frame.
Eta_unguarded(frame, fps, effective_total) ==
    IF fps > 0 THEN ((effective_total - frame) * 1000) \div fps ELSE 0

\* pipeline_executor.rs:168-172, in milliseconds
Eta(frame, fps, effective_total) ==
    IF fps > 0 /\ effective_total > frame
    THEN ((effective_total - frame) * 1000) \div fps
    ELSE 0

ProgressInfo(frame, total, fps, eta) == <<frame, total, fps, eta>>

\* A throttle that lets every line through.
ProgressDue_always(e) == e >= 0

\* pipeline_executor.rs:159: last_progress_time.elapsed() >= progress_interval
ProgressDue(e) == e >= progress_interval

\* A predicate that never reports the cancellation.
on_cancel_never(flag) == flag /\ FALSE

\* The closure run_worker passes to execute (main.rs:181):
\* || cancelled.load(Ordering::SeqCst)
on_cancel(flag) == flag

\* pipeline_executor.rs:131-177, the body of the for loop for one line.
ProcessLine ==
    /\ pc = "process_line"
    /\ IF on_cancel(cancelled)
       THEN /\ procs' = terminate(vspipe_process, ffmpeg_process, procs)
            /\ ExecuteReturns(JobCancelled)
            /\ UNCHANGED <<events, current_frame, current_fps, elapsed, line>>
       ELSE /\ current_frame' = ParseFrame(line, current_frame)
            /\ line' = NoLine
            /\ current_fps' = ParseFps(line, current_fps)
            /\ IF ProgressDue(elapsed)
               THEN /\ events' = send_progress(events,
                          ProgressInfo(current_frame',
                                       EffectiveTotal(total_frames, job),
                                       current_fps',
                                       Eta(current_frame', current_fps',
                                           EffectiveTotal(total_frames, job))))
                    /\ elapsed' = 0
               ELSE UNCHANGED <<events, elapsed>>
            /\ pc' = "read"
            /\ UNCHANGED <<procs, result>>
    /\ UNCHANGED <<files, vspipe_process, ffmpeg_process, tpc, total_frames,
                   vsRead, ffRead, vspipe_status, ffmpeg_status>>
    /\ UnchangedMain

\* pipeline_executor.rs:181, vspipe_thread.join()
JoinReader ==
    /\ pc = "join"
    /\ tpc = "done"
    /\ pc' = "wait_vspipe"
    /\ UNCHANGED <<events, result, files>>
    /\ UnchangedMain
    /\ UnchangedExec

\* pipeline_executor.rs:184-189
WaitVspipe ==
    /\ pc = "wait_vspipe"
    /\ \/ /\ ~procs.vspipe.alive
          /\ \E c \in ExitCodes : vspipe_status' = <<c>>
          /\ pc' = "wait_ffmpeg"
          /\ UNCHANGED result
       \/ /\ ExecuteReturns(Err(<<"Failed", "to", "wait", "for", "vspipe">>))
          /\ UNCHANGED vspipe_status
    /\ UNCHANGED <<events, files, procs, vspipe_process, ffmpeg_process, tpc,
                   total_frames, vsRead, ffRead, line, current_frame,
                   current_fps, elapsed, ffmpeg_status>>
    /\ UnchangedMain

\* A policy that treats a broken pipe (141) as a failure.
Tolerated_without_sigpipe(code) == code = 0 \/ code = 130

\* Exit codes that are not an error (pipeline_executor.rs:201-202, 209).
Tolerated(code) == code = 0 \/ code = 130 \/ code = 141

\* pipeline_executor.rs:198-214
CheckExitCodes(vcode, fcode) ==
    IF ~Tolerated(vcode) THEN ExitedWithCode("vspipe", vcode)
    ELSE IF ~Tolerated(fcode) THEN ExitedWithCode("ffmpeg", fcode)
    ELSE Ok

\* pipeline_executor.rs:191-214
WaitFfmpeg ==
    /\ pc = "wait_ffmpeg"
    /\ \/ /\ ~procs.ffmpeg.alive
          /\ \E c \in ExitCodes :
                /\ ffmpeg_status' = <<c>>
                /\ ExecuteReturns(CheckExitCodes(vspipe_status[1], c))
       \/ /\ ExecuteReturns(Err(<<"Failed", "to", "wait", "for", "ffmpeg">>))
          /\ UNCHANGED ffmpeg_status
    /\ UNCHANGED <<events, files, procs, vspipe_process, ffmpeg_process, tpc,
                   total_frames, vsRead, ffRead, line, current_frame,
                   current_fps, elapsed, vspipe_status>>
    /\ UnchangedMain

(***************************************************************************)
(* run_worker after execute (main.rs:181-207).  Returning from run_worker  *)
(* drops `executor`, whose Drop calls terminate (pipeline_executor.rs:433).*)
(***************************************************************************)
DropExecutor ==
    /\ procs' = terminate(vspipe_process, ffmpeg_process, procs)
    /\ executor' = "dropped"

\* main.rs:192-206: `result?`, then the cancelled check.
AfterExecute ==
    /\ pc = "execute_ret"
    /\ IF ~result.ok
       THEN /\ DropExecutor
            /\ pc' = "main_match"
            /\ UNCHANGED <<events, result>>
       ELSE IF cancelled
            THEN /\ pc' = "remove_output"
                 /\ UNCHANGED <<events, result, procs, executor>>
            ELSE /\ events' = send_log(events, <<"Encoding", "complete!">>)
                 /\ DropExecutor
                 /\ result' = Ok
                 /\ pc' = "main_match"
    /\ LocalsGone
    /\ UNCHANGED <<args, cancelled, handlerInstalled, job, files, removeCalls,
                   exitCode, genVars, libVars, vspipe_process, ffmpeg_process, tpc,
                   total_frames, vsRead>>

\* main.rs:195-203
RemoveOutput ==
    /\ pc = "remove_output"
    /\ removeCalls' = removeCalls + 1
    /\ \/ /\ files.output
          /\ files' = [files EXCEPT !.output = FALSE]
          /\ UNCHANGED events
       \/ /\ events' = send_log(events, <<"Failed", "to", "remove", "partial", "output:">>)
          /\ UNCHANGED files
    /\ DropExecutor
    /\ ReturnErr(JobCancelled)
    /\ UNCHANGED <<args, cancelled, handlerInstalled, job, exitCode, genVars, libVars,
                   vspipe_process, ffmpeg_process, tpc, total_frames, vsRead,
                   ffRead, line, current_frame, current_fps, elapsed,
                   vspipe_status, ffmpeg_status>>

(***************************************************************************)
(* Preview mode: run_preview_mode (main.rs:91-139) and                     *)
(* PipelineExecutor::generate_preview (pipeline_executor.rs:265-420).      *)
(* Errors go to stderr with eprintln!, no JSON message is written.         *)
(***************************************************************************)
UnchangedPv ==
    UNCHANGED <<args, cancelled, handlerInstalled, events, vspipe_process,
                ffmpeg_process, tpc, total_frames, vsRead, ffRead, line,
                current_frame, current_fps, elapsed, removeCalls, genVars, libVars>>

\* generate_preview returns r to run_preview_mode.
PreviewReturns(r) ==
    /\ result' = r
    /\ pc' = "preview_ret"

\* main.rs:92-130
RunPreviewMode ==
    /\ pc = "run_preview_mode"
    /\ \/ /\ ~args.frame
          /\ exitCode' = 1
          /\ pc' = "exit"
          /\ UNCHANGED <<job, executor>>
       \/ /\ args.frame
          /\ \/ /\ exitCode' = 1           \* config unreadable or unparsable,
                /\ pc' = "exit"            \* or PipelineExecutor::new failed
                /\ UNCHANGED <<job, executor>>
             \/ /\ job' \in Jobs
                /\ executor' = "live"
                /\ pc' = "generate_preview"
                /\ UNCHANGED exitCode
    /\ UNCHANGED <<result, files, procs, vspipe_status, ffmpeg_status>>
    /\ UnchangedPv

\* pipeline_executor.rs:268-275: resolve the binaries, create the temp dir.
PvResolve ==
    /\ pc = "generate_preview"
    /\ \/ /\ PreviewReturns(Err(<<"ffmpeg", "not", "found", "at">> \o FfmpegPath))
          /\ UNCHANGED files
       \/ /\ PreviewReturns(Err(<<"vspipe", "not", "found", "in">> \o VspipePath))
          /\ UNCHANGED files
       \/ /\ PreviewReturns(Err(<<"Failed", "to", "create", "temp", "dir:">>))
          /\ UNCHANGED files
       \/ /\ files' = [files EXCEPT !.temp_dir = TRUE]
          /\ pc' = "pv_extract"
          /\ UNCHANGED result
    /\ UNCHANGED <<job, executor, procs, vspipe_status, ffmpeg_status, exitCode>>
    /\ UnchangedPv

\* fs::remove_dir_all(&temp_dir) (pipeline_executor.rs:308, 314, 399)
RemoveTempDir(f) == [f EXCEPT !.temp_dir = FALSE]

\* The cleanup before the exit checks (pipeline_executor.rs:398-400).
CleanUp(f) == [RemoveTempDir(f) EXCEPT !.preview_script = FALSE]

\* A child that Command::output() started and waited for.
RanToCompletion == [spawned |-> TRUE, alive |-> FALSE, killed |-> FALSE]

\* pipeline_executor.rs:287-318: extract the clip with ffmpeg .output(),
\* which starts an ffmpeg child and waits for it unless the start fails.
PvExtract ==
    /\ pc = "pv_extract"
    /\ \/ /\ PreviewReturns(Err(<<"Failed", "to", "run", "ffmpeg", "for", "frame", "extraction">>))
          /\ UNCHANGED <<files, procs>>
       \/ /\ procs' = [procs EXCEPT !.ffmpeg = RanToCompletion]
          /\ files' = RemoveTempDir(files)
          /\ PreviewReturns(Err(<<"Failed", "to", "extract", "frames:">>))
       \/ /\ procs' = [procs EXCEPT !.ffmpeg = RanToCompletion]
          /\ files' = RemoveTempDir(files)
          /\ PreviewReturns(Err(<<"Failed", "to", "create", "preview", "clip">>))
       \/ /\ procs' = [procs EXCEPT !.ffmpeg = RanToCompletion]
          /\ pc' = "pv_script"
          /\ UNCHANGED <<files, result>>
    /\ UNCHANGED <<job, executor, vspipe_status, ffmpeg_status, exitCode>>
    /\ UnchangedPv

\* pipeline_executor.rs:327-338: ScriptGenerator::new()? and
\* generate_preview(job, &preview_params)?
PvScript ==
    /\ pc = "pv_script"
    /\ \/ /\ PreviewReturns(Err(<<"current_exe", "failed">>))
          /\ UNCHANGED files
       \/ /\ PreviewReturns(Err(<<"Failed", "to", "write", "preview", "script", "to">>))
          /\ UNCHANGED files
       \/ /\ files' = [files EXCEPT !.preview_script = TRUE]
          /\ pc' = "pv_spawn_vspipe"
          /\ UNCHANGED result
    /\ UNCHANGED <<job, executor, procs, vspipe_status, ffmpeg_status, exitCode>>
    /\ UnchangedPv

\* pipeline_executor.rs:341-354
PvSpawnVspipe ==
    /\ pc = "pv_spawn_vspipe"
    /\ \/ /\ PreviewReturns(Err(<<"Failed", "to", "start", "vspipe:">> \o VspipePath))
          /\ UNCHANGED procs
       \/ /\ procs' = [procs EXCEPT !.vspipe = Spawned]
          /\ pc' = "pv_spawn_ffmpeg"
          /\ UNCHANGED result
    /\ UNCHANGED <<job, executor, files, vspipe_status, ffmpeg_status, exitCode>>
    /\ UnchangedPv

\* pipeline_executor.rs:357-372
PvSpawnFfmpeg ==
    /\ pc = "pv_spawn_ffmpeg"
    /\ \/ /\ PreviewReturns(Err(<<"Failed", "to", "start", "ffmpeg:">> \o FfmpegPath))
          /\ UNCHANGED procs
       \/ /\ procs' = [procs EXCEPT !.ffmpeg = Spawned]
          /\ pc' = "pv_wait_vspipe"
          /\ UNCHANGED result
    /\ UNCHANGED <<job, executor, files, vspipe_status, ffmpeg_status, exitCode>>
    /\ UnchangedPv

\* pipeline_executor.rs:393
PvWaitVspipe ==
    /\ pc = "pv_wait_vspipe"
    /\ \/ /\ ~procs.vspipe.alive
          /\ \E c \in ExitCodes : vspipe_status' = <<c>>
          /\ pc' = "pv_wait_ffmpeg"
          /\ UNCHANGED result
       \/ /\ PreviewReturns(Err(<<"Failed", "to", "wait", "for", "vspipe">>))
          /\ UNCHANGED vspipe_status
    /\ UNCHANGED <<job, executor, files, procs, ffmpeg_status, exitCode>>
    /\ UnchangedPv

\* pipeline_executor.rs:402-419: the checks after the cleanup.  errors is
\* whether the stderr reader collected any line; written is whether the PNG
\* could be written to stdout.
PreviewOutcome(vcode, fcode, errors, written) ==
    IF vcode # 0
    THEN IF errors THEN Err(<<"vspipe", "failed:">>)
         ELSE ExitedWithCode("vspipe", vcode)
    ELSE IF fcode # 0 THEN ExitedWithCode("ffmpeg", fcode)
    ELSE IF ~written THEN Err(<<"write", "failed">>)
    ELSE Ok

\* pipeline_executor.rs:396-419
PvWaitFfmpeg ==
    /\ pc = "pv_wait_ffmpeg"
    /\ \/ /\ ~procs.ffmpeg.alive
          /\ files' = CleanUp(files)
          /\ \E c \in ExitCodes, errors \in BOOLEAN, written \in BOOLEAN :
                /\ ffmpeg_status' = <<c>>
                /\ PreviewReturns(PreviewOutcome(vspipe_status[1], c,
                                                 errors, written))
       \/ /\ PreviewReturns(Err(<<"Failed", "to", "wait", "for", "ffmpeg">>))
          /\ UNCHANGED <<ffmpeg_status, files>>
    /\ UNCHANGED <<job, executor, procs, vspipe_status, exitCode>>
    /\ UnchangedPv

\* main.rs:132-138; the executor is dropped when run_preview_mode returns.
PreviewFinish ==
    /\ pc = "preview_ret"
    /\ exitCode' = IF result.ok THEN 0 ELSE 1
    /\ DropExecutor
    /\ pc' = "exit"
    /\ UNCHANGED <<job, result, files, vspipe_status, ffmpeg_status>>
    /\ UnchangedPv

(***************************************************************************)
(* ProgressReporter::send_message (progress_reporter.rs:52-69), step by    *)
(* step, for the threads that hold a clone of the reporter during execute: *)
(* the calling thread and the background reader.  All clones share one     *)
(* Arc<ProgressReporterInner>, hence one output_lock.                      *)
(***************************************************************************)
Threads == {"main", "reader"}
MaxSends == 2

NotSending == [at |-> "idle", n |-> 0]
Unlocked == "none"

At(t, place) == senders[t].at = place
Goto(t, place) == senders' = [senders EXCEPT ![t].at = place]

\* A lock that anybody can take at any time.
CanLock_always(holder) == holder \in Threads \cup {Unlocked}

\* Mutex::lock returns once nobody holds the mutex.
CanLock(holder) == holder = Unlocked

\* progress_reporter.rs:53: let _lock = self.inner.output_lock.lock().unwrap()
SendLock(t) ==
    /\ At(t, "idle")
    /\ senders[t].n < MaxSends
    /\ CanLock(output_lock)
    /\ output_lock' = t
    /\ Goto(t, "serialize")
    /\ UNCHANGED <<stdout_lock, stdout>>

\* progress_reporter.rs:55 and 65-67: serde_json::to_string(message)
SendSerialize(t) ==
    /\ At(t, "serialize")
    /\ \/ Goto(t, "stdout_lock")
       \/ Goto(t, "unlock")
    /\ UNCHANGED <<output_lock, stdout_lock, stdout>>

\* progress_reporter.rs:57-58: stdout.lock()
SendLockStdout(t) ==
    /\ At(t, "stdout_lock")
    /\ stdout_lock = Unlocked
    /\ stdout_lock' = t
    /\ Goto(t, "write")
    /\ UNCHANGED <<output_lock, stdout>>

\* A piece of message number n of thread t.
Piece(t, n, text) == [by |-> t, n |-> n, text |-> text]

\* progress_reporter.rs:59-61: writeln!(handle, "{}", json) writes the JSON
\* text and then the line break; a failed write ends it.
SendWrite(t) ==
    /\ \/ /\ At(t, "write")
          /\ \/ /\ stdout' = Append(stdout, Piece(t, senders[t].n, "json"))
                /\ Goto(t, "newline")
             \/ /\ Goto(t, "flush")
                /\ UNCHANGED stdout
       \/ /\ At(t, "newline")
          /\ \/ stdout' = Append(stdout, Piece(t, senders[t].n, "\n"))
             \/ UNCHANGED stdout
          /\ Goto(t, "flush")
    /\ UNCHANGED <<output_lock, stdout_lock>>

\* progress_reporter.rs:62-63: handle.flush(); the handle is dropped at the
\* end of the match arm.
SendFlush(t) ==
    /\ At(t, "flush")
    /\ stdout_lock' = Unlocked
    /\ Goto(t, "unlock")
    /\ UNCHANGED <<output_lock, stdout>>

\* progress_reporter.rs:69: _lock is dropped when send_message returns.
SendUnlock(t) ==
    /\ At(t, "unlock")
    /\ output_lock' = Unlocked
    /\ senders' = [senders EXCEPT ![t] = [at |-> "idle", n |-> @.n + 1]]
    /\ UNCHANGED <<stdout_lock, stdout>>

InitReporter ==
    /\ senders = [t \in Threads |-> NotSending]
    /\ output_lock = Unlocked
    /\ stdout_lock = Unlocked
    /\ stdout = << >>

(***************************************************************************)
(* FilterRegistry (filter_registry.rs)                                     *)
(***************************************************************************)
FilterIds == {"qtgmc", "bm3d", "levels"}
Schemas == [id : FilterIds, source : {"builtin", "user"}]
MaxRegisterCalls == 3

\* FilterRegistry::new (filter_registry.rs:20-25)
InitRegistry ==
    /\ filters = << >>
    /\ load_order = << >>
    /\ calls = << >>

\* Vec::retain(|id| id != &schema.id)
retain(order, id) == SelectSeq(order, LAMBDA x : x # id)

\* HashMap::insert
insert(map, key, value) ==
    [k \in DOMAIN map \cup {key} |-> IF k = key THEN value ELSE map[k]]

\* The values self.filters.keys().last() can have: HashMap iterates in an
\* order that depends on the hasher's random state, so any key can be last.
LastKey(map, id) == DOMAIN map

\* FilterRegistry::register (filter_registry.rs:80-86)
Register(schema) ==
    /\ Len(calls) < MaxRegisterCalls
    /\ calls' = Append(calls, schema)
    /\ filters' = insert(filters, schema.id, schema)
    /\ \E last \in LastKey(filters', schema.id) :
          load_order' = Append(retain(load_order, schema.id), last)

\* FilterRegistry::filters (filter_registry.rs:89-91)
RECURSIVE filters_in_load_order(_, _)
filters_in_load_order(order, map) ==
    IF order = << >> THEN << >>
    ELSE (IF Head(order) \in DOMAIN map THEN << map[Head(order)] >> ELSE << >>)
             \o filters_in_load_order(Tail(order), map)

\* FilterRegistry::get (filter_registry.rs:101-103)
get(map, id) == IF id \in DOMAIN map THEN << map[id] >> ELSE << >>

\* FilterRegistry::has (filter_registry.rs:106-108)
has(map, id) == id \in DOMAIN map

InitLibIdle == InitReporter /\ InitRegistry

(***************************************************************************)
(* Specification of one run of the worker                                  *)
(***************************************************************************)
InitGenIdle ==
    /\ gpc = "idle"
    /\ gjob = << >>
    /\ entry = "none"
    /\ script = << >>

Init == InitWorker /\ InitGenIdle /\ InitLibIdle

Next ==
    \/ MainStart
    \/ SetHandler
    \/ Signal
    \/ LoadConfig
    \/ GenerateScript
    \/ NewExecutor
    \/ ExecResolve
    \/ SpawnVspipe
    \/ SpawnFfmpeg
    \/ ProcExit("vspipe")
    \/ ProcExit("ffmpeg")
    \/ VspipeReader
    \/ ReadLine
    \/ ProcessLine
    \/ JoinReader
    \/ WaitVspipe
    \/ WaitFfmpeg
    \/ AfterExecute
    \/ RemoveOutput
    \/ MainFinish
    \/ RunPreviewMode
    \/ PvResolve
    \/ PvExtract
    \/ PvScript
    \/ PvSpawnVspipe
    \/ PvSpawnFfmpeg
    \/ PvWaitVspipe
    \/ PvWaitFfmpeg
    \/ PreviewFinish

Spec == Init /\ [][Next]_vars

(***************************************************************************)
(* Specification of the progress loop of one execute call                  *)
(* (pipeline_executor.rs:98-178), started where SpawnFfmpeg leaves the     *)
(* worker and followed for MaxLoopLines lines of stage B.                  *)
(***************************************************************************)
MaxLoopLines == 2

\* What main, run_worker and execute have logged when the loop is entered.
LoopEntryEvents ==
    send_logs(<<>>, << <<"Loading", "job", "configuration...">>,
                       <<"Processing:", "input">>,
                       <<"QTGMC", "params:">>,
                       <<"Generating", "VapourSynth", "script...">>,
                       <<"Script", "written", "to:">>,
                       <<"Starting", "encoding", "pipeline...">>,
                       <<"vspipe:", "ffmpeg:">>,
                       <<"PYTHONHOME:">>,
                       <<"PYTHONPATH:">>,
                       <<"VAPOURSYNTH_PLUGIN_PATH:">> >>)

InitLoop ==
    /\ pc = "read"
    /\ args = [preview |-> FALSE, frame |-> FALSE, config |-> <<"jobs", "job.json">>]
    /\ cancelled = FALSE
    /\ handlerInstalled = TRUE
    /\ job \in Jobs
    /\ events = LoopEntryEvents
    /\ procs = [vspipe |-> Spawned, ffmpeg |-> Spawned]
    /\ vspipe_process = StoreChildren.vspipe_process
    /\ ffmpeg_process = StoreChildren.ffmpeg_process
    /\ executor = "live"
    /\ tpc = "run"
    /\ total_frames = 0
    /\ vsRead = 0
    /\ ffRead = 0
    /\ line = NoLine
    /\ current_frame = 0
    /\ current_fps = 0
    /\ elapsed = 0
    /\ vspipe_status = <<>>
    /\ ffmpeg_status = <<>>
    /\ result = NoResult
    /\ files = [NoFiles EXCEPT !.script = TRUE, !.output = TRUE]
    /\ removeCalls = 0
    /\ exitCode = -1
    /\ InitGenIdle
    /\ InitLibIdle

NextLoop ==
    \/ Signal
    \/ ProcExit("vspipe")
    \/ ProcExit("ffmpeg")
    \/ VspipeReader
    \/ ReadLineUpTo(MaxLoopLines)
    \/ ProcessLine

SpecLoop == InitLoop /\ [][NextLoop]_vars

(***************************************************************************)
(* Specification of one execute call from the entry of the progress loop   *)
(* to its return (pipeline_executor.rs:129-214), with the scheduling that  *)
(* a cancellation relies on: the calling thread and the reader thread run  *)
(* when they are not blocked, a blocking read returns when a line or the   *)
(* end of the stream is there, wait() returns when the child has exited,   *)
(* and a child exits once it was killed or the other end of one of its     *)
(* pipes is gone.  No step is required of a read that fails or of a child  *)
(* that runs on undisturbed.                                               *)
(***************************************************************************)
MaxCancelLines == 1

\* The job does not steer the control flow of execute: one job, without a
\* total of its own and deinterlaced at double rate.
InitCancel ==
    /\ InitLoop
    /\ job = [fps_divisor |-> 1, total_frames |-> << >>, deinterlace |-> TRUE]

NextCancel ==
    \/ Signal
    \/ ProcExit("vspipe")
    \/ ProcExit("ffmpeg")
    \/ VspipeReader
    \/ ReadLineUpTo(MaxCancelLines)
    \/ ProcessLine
    \/ JoinReader
    \/ WaitVspipe
    \/ WaitFfmpeg

\* The for loop over stage B's stream has ended and dropped the reader, so
\* the read end of stage B's diagnostic pipe is closed
\* (pipeline_executor.rs:129-130, 178).
LoopEnded == pc \notin {"read", "process_line"}

\* Stage B has written its last line and closes the stream.
StreamEnds == pc = "read" /\ ffRead >= MaxCancelLines

\* A child has to exit: it was killed, or the process at the other end of a
\* pipe it holds is gone.  Stage A writes into stage B's stdin
\* (pipeline_executor.rs:84-88).
MustExit(p) ==
    \/ procs[p].killed
    \/ p = "vspipe" /\ ~procs.ffmpeg.alive
    \/ p = "ffmpeg" /\ (~procs.vspipe.alive \/ LoopEnded \/ StreamEnds)

\* The blocking calls return with what they waited for.
LineOrEndOfStream == ReadLineUpTo(MaxCancelLines) /\ line' # ReadFailed
ReaderLineOrEndOfStream == VspipeReader /\ (vsRead' # vsRead \/ ~procs.vspipe.alive)
VspipeWaited == WaitVspipe /\ ~procs.vspipe.alive
FfmpegWaited == WaitFfmpeg /\ ~procs.ffmpeg.alive

FairCancel ==
    /\ WF_vars(LineOrEndOfStream)
    /\ WF_vars(ProcessLine)
    /\ WF_vars(ReaderLineOrEndOfStream)
    /\ WF_vars(JoinReader)
    /\ WF_vars(VspipeWaited)
    /\ WF_vars(FfmpegWaited)
    /\ WF_vars(ProcExit("vspipe") /\ MustExit("vspipe"))
    /\ WF_vars(ProcExit("ffmpeg") /\ MustExit("ffmpeg"))

SpecCancel == InitCancel /\ [][NextCancel]_vars /\ FairCancel

(***************************************************************************)
(* Specification of the end of a run: one execute call from the entry of   *)
(* the progress loop, run_worker after it, and main's match with its two   *)
(* steps apart: the messages are written (main.rs:70-87), then main        *)
(* returns the exit code and the process ends, which is what stops the     *)
(* background reader if it still runs.                                     *)
(***************************************************************************)
\* main.rs:70-87: the arms of the match send their messages.
MainComplete ==
    /\ pc = "main_match"
    /\ events' = MainMatch(events, result).events
    /\ exitCode' = MainMatch(events, result).exitCode
    /\ pc' = "main_ret"
    /\ UNCHANGED <<args, cancelled, handlerInstalled, job, executor, result,
                   files, removeCalls, genVars, libVars>>
    /\ UnchangedExec

\* main returns its ExitCode: the process exits and takes its threads along.
MainReturn ==
    /\ pc = "main_ret"
    /\ pc' = "exit"
    /\ UNCHANGED <<args, cancelled, handlerInstalled, job, events, executor,
                   result, files, removeCalls, exitCode, genVars, libVars>>
    /\ UnchangedExec

NextEnd ==
    \/ Signal
    \/ ProcExit("vspipe")
    \/ ProcExit("ffmpeg")
    \/ VspipeReader
    \/ ReadLineUpTo(MaxCancelLines)
    \/ ProcessLine
    \/ JoinReader
    \/ WaitVspipe
    \/ WaitFfmpeg
    \/ AfterExecute
    \/ RemoveOutput
    \/ MainComplete
    \/ MainReturn

SpecEnd == InitCancel /\ [][NextEnd]_vars

(***************************************************************************)
(* Specification of the background reader of one execute call              *)
(* (pipeline_executor.rs:103-120) while the calling thread is blocked in   *)
(* its read, for MaxReaderLines lines of stage A whose text is kept in the *)
(* log event.                                                              *)
(***************************************************************************)
MaxReaderLines == 2

ReaderLines ==
    { [text |-> "INPUT_INFO:frames=1000,fps_num=25,fps_den=1",
       info |-> TRUE,  parts |-> << Word("frames=", 1000, TRUE),
                                    Word("fps_num=", 25, TRUE),
                                    Word("fps_den=", 1, TRUE) >>],
      [text |-> "INPUT_INFO:fps_num=30,frames=500",
       info |-> TRUE,  parts |-> << Word("fps_num=", 30, TRUE),
                                    Word("frames=", 500, TRUE) >>],
      [text |-> "INPUT_INFO:frames=n/a",
       info |-> TRUE,  parts |-> << Word("frames=", 0, FALSE) >>],
      [text |-> "INPUT_INFO:total_frames=9",
       info |-> TRUE,  parts |-> << Word("total_frames=", 9, TRUE) >>],
      [text |-> "Script evaluation done, frames=77",
       info |-> FALSE, parts |-> << Word("Script evaluation done", 0, FALSE),
                                    Word("frames=", 77, TRUE) >>] }

\* format!("vspipe stderr: {}", line) (pipeline_executor.rs:107)
LoggedLine(l) == <<"vspipe", "stderr:", l.text>>

NextReader ==
    \/ Signal
    \/ ProcExit("vspipe")
    \/ ProcExit("ffmpeg")
    \/ VspipeReaderOf(MaxReaderLines, ReaderLines, [l \in ReaderLines |-> LoggedLine(l)])

SpecReader == InitLoop /\ [][NextReader]_vars

(***************************************************************************)
(* Properties of the encode run                                            *)
(***************************************************************************)
Children == {"vspipe", "ffmpeg"}

\* C1: once execute has returned and the executor has been dropped, every
\* child that was spawned has exited or has been sent the termination signal.
C1_NoChildLeftRunning ==
    (~args.preview /\ executor = "dropped") =>
        \A p \in Children :
            procs[p].spawned => (~procs[p].alive \/ procs[p].killed)

\* C2: every run of the worker in encode mode that reaches its exit has
\* emitted exactly one complete event, a failed installation of the signal
\* handler included.
C2_ExactlyOneComplete ==
    (~args.preview /\ pc = "exit") => Count(events, "complete") = 1

\* The run ended on a fatal condition: the handler could not be installed, or
\* run_worker failed with something other than the cancellation error.
FatalEnd ==
    /\ ~args.preview
    /\ pc = "exit"
    /\ \/ ~handlerInstalled
       \/ ~result.ok /\ result # JobCancelled

ErrorThenFailedComplete(ev) ==
    /\ Count(ev, "error") = 1
    /\ Count(ev, "complete") = 1
    /\ \E i, j \in DOMAIN ev :
          /\ i < j
          /\ ev[i].kind = "error"
          /\ ev[j].kind = "complete"
          /\ ~ev[j].success

\* C3: a run that ends on a fatal condition has emitted exactly one error
\* event followed by exactly one complete event with success = false.
C3_FatalReportedOnce == FatalEnd => ErrorThenFailedComplete(events)

\* C4: when execute returned the cancellation error, the worker has called
\* remove_file on the output path by the time complete(false) is emitted.
C4_CancelRemovesOutput ==
    (~args.preview /\ pc = "exit" /\ result = JobCancelled) => removeCalls > 0

\* C5: when the cancellation flag is set at the moment execute handles a
\* stage B line it has just read, that step signals both children and returns
\* the cancellation error; the line is not parsed (frame and fps keep their
\* values) and no progress event is emitted.
C5_CancelBeforeParse ==
    [][ (pc = "process_line" /\ cancelled /\ pc' # "process_line") =>
            /\ pc' = "execute_ret"
            /\ result' = JobCancelled
            /\ \A p \in Children : procs'[p].killed
            /\ current_frame' = current_frame
            /\ current_fps' = current_fps
            /\ Count(events', "progress") = Count(events, "progress") ]_vars

\* execute returned the cancellation error with an unparsed "frame=500" line
\* in hand and both children signalled.
C5_Witness ==
    /\ pc = "execute_ret"
    /\ result = JobCancelled
    /\ line # NoLine
    /\ line[1] = Word("frame=", 500, TRUE)
    /\ current_frame = 0
    /\ procs.vspipe.killed
    /\ procs.ffmpeg.killed

ReportedCancelled ==
    /\ exitCode = 130
    /\ \E i \in DOMAIN events :
          /\ events[i].kind = "log"
          /\ events[i].msg = <<"Job", "cancelled", "by", "user">>
    /\ Count(events, "error") = 0
    /\ events[Len(events)].kind = "complete"
    /\ ~events[Len(events)].success

\* C6: a finished run is reported as cancelled exactly when cancellation was
\* requested during the run.
C6_CancelledIffRequested ==
    (~args.preview /\ pc = "exit" /\ handlerInstalled) =>
        (ReportedCancelled <=> cancelled)

ExitCodeFails(code) == code \notin {0, 130, 141}

\* C7: with both exit codes known, execute fails with "<stage> exited with
\* code <n>" exactly when a code is outside {0, 130, 141}; stage A's code is
\* examined first, so its message wins when both are outside the set.
C7_ExitCodePolicy ==
    (pc = "execute_ret" /\ vspipe_status # <<>> /\ ffmpeg_status # <<>>) =>
        LET v == vspipe_status[1]
            f == ffmpeg_status[1]
        IN  /\ ExitCodeFails(v) =>
                  result = Err(<<"vspipe", "exited", "with", "code", ToString(v)>>)
            /\ (~ExitCodeFails(v) /\ ExitCodeFails(f)) =>
                  result = Err(<<"ffmpeg", "exited", "with", "code", ToString(f)>>)
            /\ (~ExitCodeFails(v) /\ ~ExitCodeFails(f)) => result = Ok

\* Stage A ended on a broken pipe and stage B failed: the error names stage B.
C7_Witness ==
    /\ pc = "execute_ret"
    /\ vspipe_status = <<141>>
    /\ ffmpeg_status = <<1>>
    /\ result = Err(<<"ffmpeg", "exited", "with", "code", "1">>)

\* C8: when generate_preview has returned, neither the temporary directory
\* nor the preview script is left on disk.
C8_PreviewArtifactsRemoved ==
    (args.preview /\ pc = "preview_ret") =>
        (~files.temp_dir /\ ~files.preview_script)


\* The deinterlace stage runs and doubles the frame rate (FPSDivisor 1).
RateDoubling(j) == j.deinterlace /\ j.fps_divisor = 1

\* The total the claim prescribes for a reported count r.
PrescribedTotal(r, j) ==
    IF r # 0
    THEN (IF RateDoubling(j) THEN 2 * r ELSE r)
    ELSE (IF j.total_frames = <<>> THEN 0 ELSE j.total_frames[1])

\* The step emits a progress event.
EmitsProgress == Count(events', "progress") = Count(events, "progress") + 1

\* C14: the totalFrames of every progress event is 2*R for a reported count
\* R > 0 when the deinterlace stage runs in rate-doubling mode, R when it does
\* not, and the job's own total (or 0) when R = 0.
C14_ReportedCountAuthoritative ==
    [][ EmitsProgress =>
            events'[Len(events')].info[2] = PrescribedTotal(total_frames, job) ]_vars

\* The progress events sent so far, as <<frame, totalFrames, fps, eta>>
\* with eta in milliseconds.
ProgressEvents == {events[i].info : i \in {k \in DOMAIN events : events[k].kind = "progress"}}

\* C15: in every progress event eta is (totalFrames - frame) / fps when
\* fps > 0 and 0 otherwise, for all values of frame and totalFrames.
C15_EtaForAllValues ==
    \A info \in ProgressEvents :
        info[4] = IF info[3] > 0
                  THEN ((info[2] - info[1]) * 1000) \div info[3]
                  ELSE 0

\* C15, amended: eta is (totalFrames - frame) / fps when fps > 0 and
\* totalFrames > frame, and 0 otherwise - also when the frame count has
\* passed a total that is unknown or too small.
C15_EtaGuarded ==
    \A info \in ProgressEvents :
        /\ (info[3] > 0 /\ info[2] > info[1]) =>
               info[4] * info[3] <= (info[2] - info[1]) * 1000
               /\ (info[2] - info[1]) * 1000 < (info[4] + 1) * info[3]
        /\ ~(info[3] > 0 /\ info[2] > info[1]) => info[4] = 0

\* A reported total of 1000 with rate doubling, frame 500 at 25 fps:
\* totalFrames 2000 and eta 60 s.
C15_Witness ==
    /\ <<500, 2000, 25, 60000>> \in ProgressEvents
    /\ total_frames = 1000
    /\ RateDoubling(job)

\* C16: any two consecutive progress events of one execute call are at least
\* 500 ms apart, whatever the rate of stage B's lines: a progress event that
\* follows another one is emitted only when 500 ms or more have passed since
\* the previous emission.
C16_ProgressEventsSpaced ==
    [][ (EmitsProgress /\ Count(events, "progress") >= 1) => elapsed >= 500 ]_vars

\* Two lines were read, each 500 ms after the previous emission, and two
\* progress events were sent.
C16_Witness ==
    /\ Count(events, "progress") = 2
    /\ ffRead = 2
    /\ pc = "read"

\* An error of locating a binary or of loading the templates.
DiscoveryError(r) ==
    /\ ~r.ok
    /\ \/ Len(r.msg) >= 3 /\ SubSeq(r.msg, 1, 3) \in { <<"vspipe", "not", "found">>,
                                                       <<"ffmpeg", "not", "found">> }
       \/ r.msg = <<"current_exe", "failed">>

\* C21: discovery errors precede every spawn: when run_worker, execute or
\* generate_preview has failed because a binary was not found or the
\* templates could not be loaded, no child process has been started.
C21_DiscoveryBeforeSpawn ==
    (pc \in {"main_match", "execute_ret", "preview_ret"} /\ DiscoveryError(result)) =>
        \A p \in Children : ~procs[p].spawned

\* The integers of the parseable frames=<int> fields of a stage A line.
FramesFields(l) ==
    {l.parts[i].num : i \in {k \in DOMAIN l.parts :
                                l.parts[k].pre = "frames=" /\ l.parts[k].ok}}

ReaderLogs(ev) == SelectSeq(ev, LAMBDA e : e.kind = "log" /\ e.msg[1] = "vspipe")

ReportedAt(l, i) ==
    IF l[i].ok THEN << l[i].num >>
    ELSE IF i < Len(l) /\ l[i + 1].pre = "" /\ l[i + 1].ok THEN << l[i + 1].num >>
    ELSE << >>

\* The frame number a line beginning with frame= reports.
ReportedFrame(l) ==
    IF Len(l) > 0 /\ l[1].pre = "frame=" THEN ReportedAt(l, 1) ELSE << >>

\* The rate the last fps= token of a line reports.
ReportedFps(l) ==
    LET at == {i \in DOMAIN l : l[i].pre = "fps=" /\ ReportedAt(l, i) # << >>}
    IN  IF at = {} THEN << >>
        ELSE ReportedAt(l, CHOOSE i \in at : \A k \in at : k <= i)

\* C24: for each line of stage B's stream that the loop processes, a line
\* beginning with frame= sets the current frame to the number it reports,
\* also when the number is padded with spaces after frame=; a line with an
\* fps= token sets the current rate to the value it reports; a line with
\* neither leaves both unchanged.
C24_ProgressLineParsed ==
    [][ (pc = "process_line" /\ pc' = "read") =>
            /\ current_frame' = IF ReportedFrame(line) # << >>
                                THEN ReportedFrame(line)[1] ELSE current_frame
            /\ current_fps' = IF ReportedFps(line) # << >>
                              THEN ReportedFps(line)[1] ELSE current_fps ]_vars

\* The execute call has not returned.
InExecute == pc \in {"read", "process_line", "join", "wait_vspipe", "wait_ffmpeg"}

\* C25: every execute call during which the cancellation flag becomes true
\* eventually returns, given that stage B writes another line or closes its
\* stream and that the children exit once killed or cut off; and the
\* cancellation is observed immediately after a line of stage B has been
\* read and nowhere else: the step that processes a line with the flag set
\* returns "Job cancelled", and no other step does.
C25_CancelledExecuteReturns ==
    /\ [](( cancelled /\ InExecute) => <>(pc = "execute_ret"))
    /\ [][ /\ (pc = "process_line" /\ pc' # pc /\ cancelled) =>
                  (pc' = "execute_ret" /\ result' = JobCancelled)
           /\ (InExecute /\ pc' = "execute_ret" /\ result' = JobCancelled) =>
                  (pc = "process_line" /\ cancelled /\ line \in FfLines) ]_vars

\* The flag was set while the call was blocked in the read of the first
\* line; the line came, both children were killed and execute returned.
C25_Witness ==
    /\ pc = "execute_ret"
    /\ cancelled
    /\ result = JobCancelled
    /\ ffRead = 1
    /\ procs.vspipe.killed /\ procs.ffmpeg.killed

\* The step emits complete(true).
EmitsCompleteTrue ==
    /\ Count(events', "complete") = Count(events, "complete") + 1
    /\ events'[Len(events')].kind = "complete"
    /\ events'[Len(events')].success

\* C27: a run ends with complete(true) only if both stages exited with
\* code 0 and no cancellation was requested: complete(true) is emitted only
\* for a run_worker that returned Ok, and run_worker returns Ok only after
\* an execute call in which both exit codes were 0 and with the
\* cancellation flag clear; an exit code of 130 or 141 does not lead to
\* complete(true).
C27_SuccessOnlyOnCleanExit ==
    [][ /\ EmitsCompleteTrue => (pc = "main_match" /\ result.ok)
        /\ (pc = "execute_ret" /\ pc' = "main_match" /\ result'.ok) =>
               /\ vspipe_status = <<0>>
               /\ ffmpeg_status = <<0>>
               /\ ~cancelled ]_vars

\* C28: the complete event is the last event of a run: no log, progress or
\* error event follows it; on every path by which execute returns, the
\* cancellation path included, the background reader has stopped emitting
\* log events before complete is emitted.
C28_CompleteIsLast ==
    \A i \in DOMAIN events : events[i].kind = "complete" => i = Len(events)

\* C29: the reported total is doubled in a progress event only when the
\* deinterlace stage of the effective pipeline is enabled and its rate
\* divisor is 1: with a reported total R > 0 and that stage disabled, or its
\* divisor not 1, totalFrames is R, whatever qtgmc_parameters says.  (For
\* the jobs of the model the stage's divisor is the one execute reads; the
\* enabled flag is the effective pipeline's.)
C29_DoubledOnlyWhenRateDoubling ==
    [][ (EmitsProgress /\ total_frames > 0 /\ ~RateDoubling(job)) =>
            events'[Len(events')].info[2] = total_frames ]_vars

\* C20: a read error on stage B's diagnostic stream makes execute return an
\* error; execute never returns success after one.
C20_ReadErrorFailsExecute ==
    (pc = "execute_ret" /\ line = ReadFailed) => ~result.ok

(***************************************************************************)
(* ScriptGenerator (script_generator.rs).  A script is a sequence of       *)
(* tokens; joining the tokens gives the text.  Values substituted for      *)
(* placeholders contain no braces, so a marker never forms across tokens   *)
(* and str::find / str::replace on the text are a search for the marker    *)
(* token.                                                                  *)
(***************************************************************************)
\* The text of embedded_template() as tokens: block markers, placeholders and
\* pieces of lines; a line break that follows a marker is a token of its own.
embedded_template ==
    <<
      "import vapoursynth as vs\n", "import sys\n", "\n", "core = vs.core\n",
      "\n", "# Load input video using ffms2 for frame-accurate seeking\n",
      "clip = core.ffms2.Source(source=r\"", "{{INPUT_PATH}}", "\")\n", "\n",
      "# Get input properties for progress tracking\n",
      "input_fps_num = clip.fps.numerator\n",
      "input_fps_den = clip.fps.denominator\n",
      "total_frames = clip.num_frames\n",
      "print(f\"INPUT_INFO:frames={total_frames},fps_num={input_fps_num},fps_den={input_fps_den}\", file=sys.stderr)\n",
      "\n", "# Import havsfunc for QTGMC\n", "import havsfunc as haf\n",
      "\n", "# Apply QTGMC deinterlacing\n", "clip = haf.QTGMC(\n",
      "    clip,\n", "    Preset=\"", "{{PRESET}}", "\",\n", "{{#TFF}}",
      "\n", "    TFF=", "{{TFF}}", ",\n", "{{/TFF}}", "\n",
      "{{#FPS_DIVISOR}}", "\n", "    FPSDivisor=", "{{FPS_DIVISOR}}", ",\n",
      "{{/FPS_DIVISOR}}", "\n", "{{#OPENCL}}", "\n", "    opencl=",
      "{{OPENCL}}", ",\n", "{{/OPENCL}}", "\n", ")\n", "\n",
      "# Output the processed clip\n", "clip.set_output()\n"
    >>

\* The text of embedded_preview_template(), tokenised the same way.
embedded_preview_template ==
    <<
      "import vapoursynth as vs\n", "import sys\n", "import os\n", "\n",
      "core = vs.core\n", "\n",
      "# Load the temporary preview video clip (extracted with fast keyframe seeking)\n",
      "video_path = r\"", "{{VIDEO_PATH}}", "\"\n", "\n",
      "# Load using ffms2 (fast since the clip is only ~11 frames)\n",
      "clip = core.ffms2.Source(video_path, cachefile=\"\")\n", "\n",
      "# Set frame rate properties that QTGMC expects (from original video)\n",
      "clip = core.std.AssumeFPS(clip, fpsnum=", "{{FPS_NUM}}", ", fpsden=",
      "{{FPS_DEN}}", ")\n", "\n",
      "# Mark as interlaced for QTGMC (field-based)\n",
      "clip = core.std.SetFieldBased(clip, ", "{{FIELD_BASED}}", ")\n", "\n",
      "# Report frame info\n", "total_frames = clip.num_frames\n",
      "print(f\"INPUT_INFO:frames={total_frames},fps_num=", "{{FPS_NUM}}",
      ",fps_den=", "{{FPS_DEN}}", "\", file=sys.stderr)\n", "\n",
      "# Import havsfunc for various filters (QTGMC, SMDegrain, chroma fixes)\n",
      "import havsfunc as haf\n", "\n", "# PASS 1: PRE-CROP\n",
      "{{#PRE_CROP}}", "\n", "clip = core.std.Crop(clip, left=",
      "{{CROP_LEFT}}", ", right=", "{{CROP_RIGHT}}", ", top=",
      "{{CROP_TOP}}", ", bottom=", "{{CROP_BOTTOM}}", ")\n", "{{/PRE_CROP}}",
      "\n", "\n", "# PASS 2: DEINTERLACING (QTGMC)\n", "{{#DEINTERLACE}}",
      "\n", "clip = haf.QTGMC(\n", "    clip,\n", "    Preset=\"",
      "{{PRESET}}", "\",\n", "{{#TFF}}", "\n", "    TFF=", "{{TFF}}", ",\n",
      "{{/TFF}}", "\n", "{{#FPS_DIVISOR}}", "\n", "    FPSDivisor=",
      "{{FPS_DIVISOR}}", ",\n", "{{/FPS_DIVISOR}}", "\n", "{{#OPENCL}}",
      "\n", "    opencl=", "{{OPENCL}}", ",\n", "{{/OPENCL}}", "\n", ")\n",
      "{{/DEINTERLACE}}", "\n", "\n", "# PASS 3: NOISE REDUCTION\n",
      "{{#NOISE_REDUCTION}}", "\n", "import mvsfunc as mvf\n", "\n",
      "{{#NR_SMDEGRAIN}}", "\n", "clip = haf.SMDegrain(\n", "    clip,\n",
      "{{#NR_TR}}", "\n", "    tr=", "{{NR_TR}}", ",\n", "{{/NR_TR}}", "\n",
      "{{#NR_TH_SAD}}", "\n", "    thSAD=", "{{NR_TH_SAD}}", ",\n",
      "{{/NR_TH_SAD}}", "\n", ")\n", "{{/NR_SMDEGRAIN}}", "\n", "\n",
      "{{#NR_MCTD}}", "\n", "clip = haf.MCTemporalDenoise(\n", "    clip,\n",
      "{{#NR_SIGMA}}", "\n", "    sigma=", "{{NR_SIGMA}}", ",\n",
      "{{/NR_SIGMA}}", "\n", ")\n", "{{/NR_MCTD}}", "\n", "\n",
      "{{#NR_BM3D}}", "\n", "clip = mvf.BM3D(\n", "    clip,\n",
      "{{#NR_BM3D_SIGMA}}", "\n", "    sigma=", "{{NR_BM3D_SIGMA}}", ",\n",
      "{{/NR_BM3D_SIGMA}}", "\n", ")\n", "{{/NR_BM3D}}", "\n",
      "{{/NOISE_REDUCTION}}", "\n", "\n", "# PASS 4: DEHALO\n",
      "{{#DEHALO}}", "\n", "\n", "{{#DEHALO_DEHALO_ALPHA}}", "\n",
      "clip = haf.DeHalo_alpha(\n", "    clip,\n", "{{#DEHALO_RX}}", "\n",
      "    rx=", "{{DEHALO_RX}}", ",\n", "{{/DEHALO_RX}}", "\n",
      "{{#DEHALO_RY}}", "\n", "    ry=", "{{DEHALO_RY}}", ",\n",
      "{{/DEHALO_RY}}", "\n", "{{#DEHALO_DARKSTR}}", "\n", "    darkstr=",
      "{{DEHALO_DARKSTR}}", ",\n", "{{/DEHALO_DARKSTR}}", "\n",
      "{{#DEHALO_BRIGHTSTR}}", "\n", "    brightstr=",
      "{{DEHALO_BRIGHTSTR}}", ",\n", "{{/DEHALO_BRIGHTSTR}}", "\n", ")\n",
      "{{/DEHALO_DEHALO_ALPHA}}", "\n", "\n", "{{#DEHALO_FINE_DEHALO}}",
      "\n", "clip = haf.FineDehalo(\n", "    clip,\n", "{{#DEHALO_RX}}",
      "\n", "    rx=", "{{DEHALO_RX}}", ",\n", "{{/DEHALO_RX}}", "\n",
      "{{#DEHALO_RY}}", "\n", "    ry=", "{{DEHALO_RY}}", ",\n",
      "{{/DEHALO_RY}}", "\n", "{{#DEHALO_DARKSTR}}", "\n", "    darkstr=",
      "{{DEHALO_DARKSTR}}", ",\n", "{{/DEHALO_DARKSTR}}", "\n",
      "{{#DEHALO_BRIGHTSTR}}", "\n", "    brightstr=",
      "{{DEHALO_BRIGHTSTR}}", ",\n", "{{/DEHALO_BRIGHTSTR}}", "\n", ")\n",
      "{{/DEHALO_FINE_DEHALO}}", "\n", "\n", "{{#DEHALO_YAHR}}", "\n",
      "clip = haf.YAHR(\n", "    clip,\n", "{{#DEHALO_YAHR_BLUR}}", "\n",
      "    blur=", "{{DEHALO_YAHR_BLUR}}", ",\n", "{{/DEHALO_YAHR_BLUR}}",
      "\n", "{{#DEHALO_YAHR_DEPTH}}", "\n", "    depth=",
      "{{DEHALO_YAHR_DEPTH}}", ",\n", "{{/DEHALO_YAHR_DEPTH}}", "\n", ")\n",
      "{{/DEHALO_YAHR}}", "\n", "{{/DEHALO}}", "\n", "\n",
      "# PASS 5: DEBLOCK\n", "{{#DEBLOCK}}", "\n", "\n", "{{#DEBLOCK_QED}}",
      "\n", "clip = haf.Deblock_QED(\n", "    clip,\n",
      "{{#DEBLOCK_QUANT1}}", "\n", "    quant1=", "{{DEBLOCK_QUANT1}}",
      ",\n", "{{/DEBLOCK_QUANT1}}", "\n", "{{#DEBLOCK_QUANT2}}", "\n",
      "    quant2=", "{{DEBLOCK_QUANT2}}", ",\n", "{{/DEBLOCK_QUANT2}}",
      "\n", ")\n", "{{/DEBLOCK_QED}}", "\n", "\n", "{{#DEBLOCK_SIMPLE}}",
      "\n", "clip = core.deblock.Deblock(\n", "    clip,\n",
      "{{#DEBLOCK_QUANT1}}", "\n", "    quant=", "{{DEBLOCK_QUANT1}}", ",\n",
      "{{/DEBLOCK_QUANT1}}", "\n", ")\n", "{{/DEBLOCK_SIMPLE}}", "\n",
      "{{/DEBLOCK}}", "\n", "\n", "# PASS 6: DEBAND\n", "{{#DEBAND}}", "\n",
      "clip = core.neo_f3kdb.Deband(\n", "    clip,\n", "{{#DEBAND_RANGE}}",
      "\n", "    range=", "{{DEBAND_RANGE}}", ",\n", "{{/DEBAND_RANGE}}",
      "\n", "{{#DEBAND_Y}}", "\n", "    y=", "{{DEBAND_Y}}", ",\n",
      "{{/DEBAND_Y}}", "\n", "{{#DEBAND_CB}}", "\n", "    cb=",
      "{{DEBAND_CB}}", ",\n", "{{/DEBAND_CB}}", "\n", "{{#DEBAND_CR}}", "\n",
      "    cr=", "{{DEBAND_CR}}", ",\n", "{{/DEBAND_CR}}", "\n",
      "{{#DEBAND_GRAINY}}", "\n", "    grainy=", "{{DEBAND_GRAINY}}", ",\n",
      "{{/DEBAND_GRAINY}}", "\n", "{{#DEBAND_GRAINC}}", "\n", "    grainc=",
      "{{DEBAND_GRAINC}}", ",\n", "{{/DEBAND_GRAINC}}", "\n",
      "{{#DEBAND_OUTPUT_DEPTH}}", "\n", "    output_depth=",
      "{{DEBAND_OUTPUT_DEPTH}}", ",\n", "{{/DEBAND_OUTPUT_DEPTH}}", "\n",
      ")\n", "{{/DEBAND}}", "\n", "\n", "# PASS 7: SHARPEN\n",
      "{{#SHARPEN}}", "\n", "\n", "{{#SHARPEN_LSFMOD}}", "\n",
      "clip = haf.LSFmod(\n", "    clip,\n", "{{#SHARPEN_STRENGTH}}", "\n",
      "    strength=", "{{SHARPEN_STRENGTH}}", ",\n",
      "{{/SHARPEN_STRENGTH}}", "\n", "{{#SHARPEN_OVERSHOOT}}", "\n",
      "    overshoot=", "{{SHARPEN_OVERSHOOT}}", ",\n",
      "{{/SHARPEN_OVERSHOOT}}", "\n", "{{#SHARPEN_UNDERSHOOT}}", "\n",
      "    undershoot=", "{{SHARPEN_UNDERSHOOT}}", ",\n",
      "{{/SHARPEN_UNDERSHOOT}}", "\n", "{{#SHARPEN_SOFT_EDGE}}", "\n",
      "    soft=", "{{SHARPEN_SOFT_EDGE}}", ",\n", "{{/SHARPEN_SOFT_EDGE}}",
      "\n", ")\n", "{{/SHARPEN_LSFMOD}}", "\n", "\n", "{{#SHARPEN_CAS}}",
      "\n", "clip = core.cas.CAS(\n", "    clip,\n",
      "{{#SHARPEN_CAS_SHARPNESS}}", "\n", "    sharpness=",
      "{{SHARPEN_CAS_SHARPNESS}}", ",\n", "{{/SHARPEN_CAS_SHARPNESS}}", "\n",
      ")\n", "{{/SHARPEN_CAS}}", "\n", "{{/SHARPEN}}", "\n", "\n",
      "# PASS 8: CHROMA FIXES\n", "{{#CHROMA_FIXES}}", "\n", "\n",
      "{{#CHROMA_FIX_BLEEDING}}", "\n", "clip = haf.FixChromaBleedingMod(\n",
      "    clip,\n", "{{#CHROMA_CX}}", "\n", "    cx=", "{{CHROMA_CX}}",
      ",\n", "{{/CHROMA_CX}}", "\n", "{{#CHROMA_CY}}", "\n", "    cy=",
      "{{CHROMA_CY}}", ",\n", "{{/CHROMA_CY}}", "\n", "{{#CHROMA_THR}}",
      "\n", "    thr=", "{{CHROMA_THR}}", ",\n", "{{/CHROMA_THR}}", "\n",
      "{{#CHROMA_STRENGTH}}", "\n", "    strength=", "{{CHROMA_STRENGTH}}",
      ",\n", "{{/CHROMA_STRENGTH}}", "\n", ")\n", "{{/CHROMA_FIX_BLEEDING}}",
      "\n", "\n", "{{#CHROMA_DECRAWL}}", "\n", "clip = haf.LUTDeCrawl(\n",
      "    clip,\n", "{{#DECRAWL_YTHRESH}}", "\n", "    ythresh=",
      "{{DECRAWL_YTHRESH}}", ",\n", "{{/DECRAWL_YTHRESH}}", "\n",
      "{{#DECRAWL_CTHRESH}}", "\n", "    cthresh=", "{{DECRAWL_CTHRESH}}",
      ",\n", "{{/DECRAWL_CTHRESH}}", "\n", "{{#DECRAWL_MAXDIFF}}", "\n",
      "    maxdiff=", "{{DECRAWL_MAXDIFF}}", ",\n", "{{/DECRAWL_MAXDIFF}}",
      "\n", ")\n", "{{/CHROMA_DECRAWL}}", "\n", "\n", "{{#CHROMA_VINVERSE}}",
      "\n", "clip = haf.Vinverse(\n", "    clip,\n", "{{#VINVERSE_SSTR}}",
      "\n", "    sstr=", "{{VINVERSE_SSTR}}", ",\n", "{{/VINVERSE_SSTR}}",
      "\n", "{{#VINVERSE_AMNT}}", "\n", "    amnt=", "{{VINVERSE_AMNT}}",
      ",\n", "{{/VINVERSE_AMNT}}", "\n", ")\n", "{{/CHROMA_VINVERSE}}", "\n",
      "{{/CHROMA_FIXES}}", "\n", "\n", "# PASS 9: COLOR CORRECTION\n",
      "{{#COLOR_CORRECTION}}", "\n", "import adjust\n", "\n",
      "{{#COLOR_TWEAK}}", "\n", "clip = adjust.Tweak(\n", "    clip,\n",
      "{{#COLOR_BRIGHTNESS}}", "\n", "    bright=", "{{COLOR_BRIGHTNESS}}",
      ",\n", "{{/COLOR_BRIGHTNESS}}", "\n", "{{#COLOR_CONTRAST}}", "\n",
      "    cont=", "{{COLOR_CONTRAST}}", ",\n", "{{/COLOR_CONTRAST}}", "\n",
      "{{#COLOR_SATURATION}}", "\n", "    sat=", "{{COLOR_SATURATION}}",
      ",\n", "{{/COLOR_SATURATION}}", "\n", "{{#COLOR_HUE}}", "\n",
      "    hue=", "{{COLOR_HUE}}", ",\n", "{{/COLOR_HUE}}", "\n", ")\n",
      "{{/COLOR_TWEAK}}", "\n", "\n", "{{#COLOR_LEVELS}}", "\n",
      "clip = core.std.Levels(\n", "    clip,\n", "{{#LEVELS_INPUT_LOW}}",
      "\n", "    min_in=", "{{LEVELS_INPUT_LOW}}", ",\n",
      "{{/LEVELS_INPUT_LOW}}", "\n", "{{#LEVELS_INPUT_HIGH}}", "\n",
      "    max_in=", "{{LEVELS_INPUT_HIGH}}", ",\n",
      "{{/LEVELS_INPUT_HIGH}}", "\n", "{{#LEVELS_OUTPUT_LOW}}", "\n",
      "    min_out=", "{{LEVELS_OUTPUT_LOW}}", ",\n",
      "{{/LEVELS_OUTPUT_LOW}}", "\n", "{{#LEVELS_OUTPUT_HIGH}}", "\n",
      "    max_out=", "{{LEVELS_OUTPUT_HIGH}}", ",\n",
      "{{/LEVELS_OUTPUT_HIGH}}", "\n", "{{#LEVELS_GAMMA}}", "\n",
      "    gamma=", "{{LEVELS_GAMMA}}", ",\n", "{{/LEVELS_GAMMA}}", "\n",
      ")\n", "{{/COLOR_LEVELS}}", "\n", "{{/COLOR_CORRECTION}}", "\n", "\n",
      "# PASS 10: RESIZE\n", "{{#RESIZE}}", "\n", "\n",
      "{{#RESIZE_INTEGER_UPSCALE}}", "\n", "{{#UPSCALE_NNEDI3}}", "\n",
      "def nnedi3_2x(c):\n",
      "    c = core.znedi3.nnedi3(c, field=1, dh=True)\n",
      "    c = core.std.Transpose(c)\n",
      "    c = core.znedi3.nnedi3(c, field=1, dh=True)\n",
      "    c = core.std.Transpose(c)\n", "    return c\n", "for _ in range(",
      "{{UPSCALE_FACTOR}}", " // 2 if ", "{{UPSCALE_FACTOR}}",
      " > 1 else 1):\n", "    clip = nnedi3_2x(clip)\n",
      "{{/UPSCALE_NNEDI3}}", "\n", "{{#UPSCALE_EEDI3}}", "\n",
      "clip = core.resize.Spline36(clip, width=clip.width * ",
      "{{UPSCALE_FACTOR}}", ", height=clip.height * ", "{{UPSCALE_FACTOR}}",
      ")\n", "{{/UPSCALE_EEDI3}}", "\n", "{{/RESIZE_INTEGER_UPSCALE}}", "\n",
      "\n", "{{#RESIZE_STANDARD}}", "\n", "target_w = ", "{{TARGET_WIDTH}}",
      "\n", "target_h = ", "{{TARGET_HEIGHT}}", "\n", "{{#MAINTAIN_ASPECT}}",
      "\n", "aspect = clip.width / clip.height\n",
      "if target_w > 0 and target_h <= 0:\n",
      "    target_h = int(target_w / aspect)\n",
      "    target_h = target_h - (target_h % 2)\n",
      "elif target_h > 0 and target_w <= 0:\n",
      "    target_w = int(target_h * aspect)\n",
      "    target_w = target_w - (target_w % 2)\n",
      "elif target_w > 0 and target_h > 0:\n",
      "    scale_w = target_w / clip.width\n",
      "    scale_h = target_h / clip.height\n",
      "    scale = min(scale_w, scale_h)\n",
      "    target_w = int(clip.width * scale)\n",
      "    target_w = target_w - (target_w % 2)\n",
      "    target_h = int(clip.height * scale)\n",
      "    target_h = target_h - (target_h % 2)\n", "{{/MAINTAIN_ASPECT}}",
      "\n", "\n", "{{#RESIZE_SPLINE36}}", "\n",
      "clip = core.resize.Spline36(clip, width=target_w, height=target_h)\n",
      "{{/RESIZE_SPLINE36}}", "\n", "{{#RESIZE_LANCZOS}}", "\n",
      "clip = core.resize.Lanczos(clip, width=target_w, height=target_h)\n",
      "{{/RESIZE_LANCZOS}}", "\n", "{{#RESIZE_BICUBIC}}", "\n",
      "clip = core.resize.Bicubic(clip, width=target_w, height=target_h)\n",
      "{{/RESIZE_BICUBIC}}", "\n", "{{#RESIZE_BILINEAR}}", "\n",
      "clip = core.resize.Bilinear(clip, width=target_w, height=target_h)\n",
      "{{/RESIZE_BILINEAR}}", "\n", "{{/RESIZE_STANDARD}}", "\n",
      "{{/RESIZE}}", "\n", "\n",
      "# OUTPUT - select the middle frame for preview\n",
      "middle_frame = clip.num_frames // 2\n", "clip = clip[middle_frame]\n",
      "clip.set_output()\n"
    >>

\* format!("{{{{#{}}}}}", name), format!("{{{{/{}}}}}", name),
\* format!("{{{{{}}}}}", name)
StartTag(name) == "{{#" \o name \o "}}"
EndTag(name) == "{{/" \o name \o "}}"
Placeholder(name) == "{{" \o name \o "}}"

\* str::find from position `from` on: the first index holding tok, or 0.
Find(s, tok, from) ==
    LET hits == {i \in from..Len(s) : s[i] = tok}
    IN  IF hits = {} THEN 0 ELSE CHOOSE i \in hits : \A j \in hits : i <= j

\* str::replace(from, to); replacing by "" leaves no token behind.
replace(s, from, to) ==
    IF to = ""
    THEN SelectSeq(s, LAMBDA t : t # from)
    ELSE [i \in DOMAIN s |-> IF s[i] = from THEN to ELSE s[i]]

\* A remove_block that cuts the first block only.
remove_block_once(start_tag, end_tag, s) ==
    LET start_pos == Find(s, start_tag, 1)
        end_pos == Find(s, end_tag, start_pos)
        remove_end == IF end_pos < Len(s) /\ s[end_pos + 1] = "\n"
                      THEN end_pos + 1 ELSE end_pos
    IN  IF start_pos = 0 \/ end_pos = 0 THEN s
        ELSE SubSeq(s, 1, start_pos - 1) \o SubSeq(s, remove_end + 1, Len(s))

\* A remove_block that deletes the two tags and keeps what is between them.
remove_block_tags_only(start_tag, end_tag, s) ==
    SelectSeq(s, LAMBDA t : t # start_tag /\ t # end_tag)

\* remove_block: while a start tag is found, cut from it to the first end tag
\* after it, and one line break that directly follows; stop when a start tag
\* has no end tag after it.
RECURSIVE remove_block(_, _, _)
remove_block(start_tag, end_tag, s) ==
    LET start_pos == Find(s, start_tag, 1)
        end_pos == Find(s, end_tag, start_pos)
        remove_end == IF end_pos < Len(s) /\ s[end_pos + 1] = "\n"
                      THEN end_pos + 1 ELSE end_pos
    IN  IF start_pos = 0 THEN s
        ELSE IF end_pos = 0 THEN s
        ELSE remove_block(start_tag, end_tag,
                          SubSeq(s, 1, start_pos - 1)
                              \o SubSeq(s, remove_end + 1, Len(s)))

\* Option<T> is a sequence of length 0 (None) or 1 (Some).
None == << >>
Some(v) == << v >>

\* f64 values are fixed-point numbers in units of 1/Unit.
Unit == 10000
Abs(x) == IF x < 0 THEN -x ELSE x

\* i32::to_string
FormatInt(v) == ToString(v)

\* if val { "True" } else { "False" }
FormatBool(v) == IF v THEN "True" ELSE "False"

\* The digits of format!("{:.4}") after the point with trailing zeros
\* trimmed, for a fraction 0 < f < Unit.
FormatFraction(f) ==
    LET digits == IF f % 1000 = 0 THEN f \div 1000
                  ELSE IF f % 100 = 0 THEN f \div 100
                  ELSE IF f % 10 = 0 THEN f \div 10
                  ELSE f
        width == IF f % 1000 = 0 THEN 1
                 ELSE IF f % 100 = 0 THEN 2
                 ELSE IF f % 10 = 0 THEN 3
                 ELSE 4
        pad == IF width >= 4 /\ digits < 1000 THEN "0" ELSE ""
        pad2 == IF width >= 3 /\ digits < 100 THEN "0" ELSE ""
        pad3 == IF width >= 2 /\ digits < 10 THEN "0" ELSE ""
    IN  pad \o pad2 \o pad3 \o ToString(digits)

\* The argument of process_optional_double is an f64 in units of
\* 1/(Unit * Fine): one decimal digit more than "{:.4}" prints.
Fine == 10
ToFine(value) == IF value # None THEN Some(value[1] * Fine) ELSE None

\* A formatting that trims the zeros of whole values as well.
FormatDouble_trimmed(v) ==
    LET sign == IF v < 0 THEN "-" ELSE ""
        rounded == (Abs(v) + Fine \div 2) \div Fine
    IN  IF rounded % Unit = 0
        THEN sign \o ToString(rounded \div Unit)
        ELSE sign \o ToString(rounded \div Unit) \o "." \o FormatFraction(rounded % Unit)

\* The formatting of process_optional_double: "{:.1}" when the value has no
\* fraction, else "{:.4}" (rounded to four decimals; half-way values are not
\* among the inputs) with trailing zeros trimmed and then a trailing point.
FormatDouble(v) ==
    LET sign == IF v < 0 THEN "-" ELSE ""
        rounded == (Abs(v) + Fine \div 2) \div Fine
        whole == rounded \div Unit
        fract == rounded % Unit
    IN  IF Abs(v) % (Unit * Fine) = 0
        THEN sign \o ToString(Abs(v) \div (Unit * Fine)) \o ".0"
        ELSE IF fract = 0
        THEN sign \o ToString(whole)
        ELSE sign \o ToString(whole) \o "." \o FormatFraction(fract)

\* The body shared by the four process_optional_* functions, given the
\* formatted value.
process_optional(name, formatted, s) ==
    IF formatted # None
    THEN replace(replace(replace(s, StartTag(name), ""), EndTag(name), ""),
                 Placeholder(name), formatted[1])
    ELSE remove_block(StartTag(name), EndTag(name), s)

\* A process_optional_int that keeps the block when no value is given.
process_optional_int_keeping(name, value, s) ==
    replace(replace(replace(s, StartTag(name), ""), EndTag(name), ""),
            Placeholder(name), IF value # None THEN FormatInt(value[1]) ELSE "0")

process_optional_int(name, value, s) ==
    process_optional(name, IF value # None THEN Some(FormatInt(value[1])) ELSE None, s)

process_optional_double(name, value, s) ==
    process_optional(name, IF value # None THEN Some(FormatDouble(value[1])) ELSE None, s)

process_optional_bool(name, value, s) ==
    process_optional(name, IF value # None THEN Some(FormatBool(value[1])) ELSE None, s)

process_optional_string(name, value, s) ==
    process_optional(name, value, s)

(***************************************************************************)
(* substitute_parameters_on (script_generator.rs:156-634) as the list of   *)
(* edits each pass applies, one step per statement of the source.          *)
(***************************************************************************)
Replace(from, to) == [op |-> "replace", a |-> from, b |-> to]
RemoveBlock(start_tag, end_tag) == [op |-> "remove_block", a |-> start_tag, b |-> end_tag]
OptionalInt(name, value) == [op |-> "process_optional_int", a |-> name, b |-> value]
OptionalDouble(name, value) == [op |-> "process_optional_double", a |-> name, b |-> value]
OptionalBool(name, value) == [op |-> "process_optional_bool", a |-> name, b |-> value]
OptionalString(name, value) == [op |-> "process_optional_string", a |-> name, b |-> value]

\* script = <step>(script)
Apply(step, s) ==
    CASE step.op = "replace" -> replace(s, step.a, step.b)
      [] step.op = "remove_block" -> remove_block(step.a, step.b, s)
      [] step.op = "process_optional_int" -> process_optional_int(step.a, step.b, s)
      [] step.op = "process_optional_double" ->
             process_optional_double(step.a, ToFine(step.b), s)
      [] step.op = "process_optional_bool" -> process_optional_bool(step.a, step.b, s)
      [] step.op = "process_optional_string" -> process_optional_string(step.a, step.b, s)

\* The statements in order; each result is computed before the next
\* statement runs.  The list is run as its first half and then its second
\* half, which keeps the evaluation shallow.
RECURSIVE Run(_, _)
Run(steps, s) ==
    IF steps = << >> THEN s
    ELSE IF Len(steps) = 1 THEN Apply(steps[1], s)
    ELSE LET half == Len(steps) \div 2
             mid == Run(SubSeq(steps, 1, half), s)
         IN  IF Len(mid) >= 0
             THEN Run(SubSeq(steps, half + 1, Len(steps)), mid)
             ELSE mid

\* script_generator.rs:163-174
pre_crop_pass(crop) ==
    IF crop.enabled /\ crop.crop_enabled /\
       (crop.crop_left > 0 \/ crop.crop_right > 0 \/ crop.crop_top > 0 \/ crop.crop_bottom > 0)
    THEN << Replace("{{#PRE_CROP}}", ""),
            Replace("{{/PRE_CROP}}", ""),
            Replace("{{CROP_LEFT}}", FormatInt(crop.crop_left)),
            Replace("{{CROP_RIGHT}}", FormatInt(crop.crop_right)),
            Replace("{{CROP_TOP}}", FormatInt(crop.crop_top)),
            Replace("{{CROP_BOTTOM}}", FormatInt(crop.crop_bottom)) >>
    ELSE << RemoveBlock("{{#PRE_CROP}}", "{{/PRE_CROP}}") >>

\* script_generator.rs:179-278; the values come from job.qtgmc_parameters
\* (params), the switch from pipeline.deinterlace.
deinterlace_pass(params, deinterlace) ==
    IF deinterlace.enabled
    THEN << Replace("{{#DEINTERLACE}}", ""),
            Replace("{{/DEINTERLACE}}", ""),
            Replace("{{PRESET}}", params.preset),
            OptionalBool("TFF", params.tff),
            OptionalInt("INPUT_TYPE", IF params.input_type # 0 THEN Some(params.input_type) ELSE None),
            OptionalInt("FPS_DIVISOR", IF params.fps_divisor # 1 THEN Some(params.fps_divisor) ELSE None),
            OptionalInt("TR0", params.tr0),
            OptionalInt("TR1", params.tr1),
            OptionalInt("TR2", params.tr2),
            OptionalInt("REP0", params.rep0),
            OptionalInt("REP1", IF params.rep1 # 0 THEN Some(params.rep1) ELSE None),
            OptionalInt("REP2", params.rep2),
            OptionalBool("REP_CHROMA", IF ~params.rep_chroma THEN Some(FALSE) ELSE None),
            OptionalString("EDI_MODE", params.edi_mode),
            OptionalInt("NN_SIZE", params.nn_size),
            OptionalInt("NN_NEURONS", params.nn_neurons),
            OptionalInt("EDI_QUAL", IF params.edi_qual # 1 THEN Some(params.edi_qual) ELSE None),
            OptionalInt("EDI_MAX_D", params.edi_max_d),
            OptionalString("CHROMA_EDI", IF params.chroma_edi = "" THEN None ELSE Some(params.chroma_edi)),
            OptionalInt("BLOCK_SIZE", params.block_size),
            OptionalInt("OVERLAP", params.overlap),
            OptionalInt("SEARCH", params.search),
            OptionalInt("SEARCH_PARAM", params.search_param),
            OptionalInt("PEL_SEARCH", params.pel_search),
            OptionalBool("CHROMA_MOTION", params.chroma_motion),
            OptionalBool("TRUE_MOTION", IF params.true_motion THEN Some(TRUE) ELSE None),
            OptionalInt("LAMBDA", params.lambda),
            OptionalInt("LSAD", params.lsad),
            OptionalInt("P_NEW", params.p_new),
            OptionalInt("P_LEVEL", params.p_level),
            OptionalBool("GLOBAL_MOTION", IF ~params.global_motion THEN Some(FALSE) ELSE None),
            OptionalInt("DCT", IF params.dct # 0 THEN Some(params.dct) ELSE None),
            OptionalInt("SUB_PEL", params.sub_pel),
            OptionalInt("SUB_PEL_INTERP", IF params.sub_pel_interp # 2 THEN Some(params.sub_pel_interp) ELSE None),
            OptionalInt("TH_SAD1", IF params.th_sad1 # 640 THEN Some(params.th_sad1) ELSE None),
            OptionalInt("TH_SAD2", IF params.th_sad2 # 256 THEN Some(params.th_sad2) ELSE None),
            OptionalInt("TH_SCD1", IF params.th_scd1 # 180 THEN Some(params.th_scd1) ELSE None),
            OptionalInt("TH_SCD2", IF params.th_scd2 # 98 THEN Some(params.th_scd2) ELSE None),
            OptionalDouble("SHARPNESS", params.sharpness),
            OptionalInt("S_MODE", params.s_mode),
            OptionalInt("SL_MODE", params.sl_mode),
            OptionalInt("SL_RAD", params.sl_rad),
            OptionalInt("S_OVS", IF params.s_ovs # 0 THEN Some(params.s_ovs) ELSE None),
            OptionalDouble("SV_THIN", IF params.sv_thin # 0 THEN Some(params.sv_thin) ELSE None),
            OptionalInt("SBB", params.sbb),
            OptionalInt("SRCH_CLIP_PP", params.srch_clip_pp),
            OptionalInt("NOISE_PROCESS", params.noise_process),
            OptionalDouble("EZ_DENOISE", params.ez_denoise),
            OptionalDouble("EZ_KEEP_GRAIN", params.ez_keep_grain),
            OptionalString("NOISE_PRESET", IF params.noise_preset # "Fast" THEN Some(params.noise_preset) ELSE None),
            OptionalString("DENOISER", params.denoiser),
            OptionalInt("FFT_THREADS", IF params.fft_threads # 1 THEN Some(params.fft_threads) ELSE None),
            OptionalBool("DENOISE_MC", params.denoise_mc),
            OptionalInt("NOISE_TR", params.noise_tr),
            OptionalDouble("SIGMA", params.sigma),
            OptionalBool("CHROMA_NOISE", IF params.chroma_noise THEN Some(TRUE) ELSE None),
            OptionalDouble("SHOW_NOISE", IF params.show_noise # 0 THEN Some(params.show_noise) ELSE None),
            OptionalDouble("GRAIN_RESTORE", params.grain_restore),
            OptionalDouble("NOISE_RESTORE", params.noise_restore),
            OptionalString("NOISE_DEINT", params.noise_deint),
            OptionalBool("STABILIZE_NOISE", params.stabilize_noise),
            OptionalInt("SOURCE_MATCH", IF params.source_match # 0 THEN Some(params.source_match) ELSE None),
            OptionalString("MATCH_PRESET", params.match_preset),
            OptionalString("MATCH_EDI", params.match_edi),
            OptionalString("MATCH_PRESET2", params.match_preset2),
            OptionalString("MATCH_EDI2", params.match_edi2),
            OptionalInt("MATCH_TR2", IF params.match_tr2 # 1 THEN Some(params.match_tr2) ELSE None),
            OptionalDouble("MATCH_ENHANCE", IF Abs(params.match_enhance - 5000) > 10 THEN Some(params.match_enhance) ELSE None),
            OptionalInt("LOSSLESS", IF params.lossless # 0 THEN Some(params.lossless) ELSE None),
            OptionalBool("BORDER", IF params.border THEN Some(TRUE) ELSE None),
            OptionalBool("PRECISE", params.precise),
            OptionalInt("FORCE_TR", IF params.force_tr # 0 THEN Some(params.force_tr) ELSE None),
            OptionalBool("OPENCL", Some(params.opencl)),
            OptionalInt("DEVICE", params.device) >>
    ELSE << RemoveBlock("{{#DEINTERLACE}}", "{{/DEINTERLACE}}") >>

\* script_generator.rs:283-320
noise_reduction_pass(nr) ==
    IF nr.enabled
    THEN << Replace("{{#NOISE_REDUCTION}}", ""),
            Replace("{{/NOISE_REDUCTION}}", "") >>
         \o (CASE nr.method = "SmDegrain" ->
                   << Replace("{{#NR_SMDEGRAIN}}", ""),
                      Replace("{{/NR_SMDEGRAIN}}", ""),
                      RemoveBlock("{{#NR_MCTD}}", "{{/NR_MCTD}}"),
                      RemoveBlock("{{#NR_BM3D}}", "{{/NR_BM3D}}"),
                      OptionalInt("NR_TR", Some(nr.sm_degrain_tr)),
                      OptionalInt("NR_TH_SAD", Some(nr.sm_degrain_th_sad)),
                      OptionalInt("NR_TH_SADC", IF nr.sm_degrain_th_sadc # nr.sm_degrain_th_sad THEN Some(nr.sm_degrain_th_sadc) ELSE None),
                      OptionalBool("NR_REFINE_MOTION", Some(nr.sm_degrain_refine)),
                      OptionalInt("NR_PREFILTER", IF nr.sm_degrain_prefilter # 2 THEN Some(nr.sm_degrain_prefilter) ELSE None),
                      OptionalBool("NR_CONTRASHARP", None) >>
              [] nr.method = "McTemporalDenoise" ->
                   << RemoveBlock("{{#NR_SMDEGRAIN}}", "{{/NR_SMDEGRAIN}}"),
                      Replace("{{#NR_MCTD}}", ""),
                      Replace("{{/NR_MCTD}}", ""),
                      RemoveBlock("{{#NR_BM3D}}", "{{/NR_BM3D}}"),
                      OptionalDouble("NR_SIGMA", Some(nr.mc_temporal_sigma)),
                      OptionalInt("NR_RADIUS", Some(nr.mc_temporal_radius)) >>
              [] nr.method = "QtgmcBuiltin" ->
                   << RemoveBlock("{{#NR_SMDEGRAIN}}", "{{/NR_SMDEGRAIN}}"),
                      RemoveBlock("{{#NR_MCTD}}", "{{/NR_MCTD}}"),
                      RemoveBlock("{{#NR_BM3D}}", "{{/NR_BM3D}}") >>)
    ELSE << RemoveBlock("{{#NOISE_REDUCTION}}", "{{/NOISE_REDUCTION}}") >>

\* script_generator.rs:325-364
dehalo_pass(dehalo) ==
    IF dehalo.enabled
    THEN << Replace("{{#DEHALO}}", ""),
            Replace("{{/DEHALO}}", "") >>
         \o (CASE dehalo.method = "DehaloAlpha" ->
                   << Replace("{{#DEHALO_DEHALO_ALPHA}}", ""),
                      Replace("{{/DEHALO_DEHALO_ALPHA}}", ""),
                      RemoveBlock("{{#DEHALO_FINE_DEHALO}}", "{{/DEHALO_FINE_DEHALO}}"),
                      RemoveBlock("{{#DEHALO_YAHR}}", "{{/DEHALO_YAHR}}") >>
              [] dehalo.method = "FineDehalo" ->
                   << RemoveBlock("{{#DEHALO_DEHALO_ALPHA}}", "{{/DEHALO_DEHALO_ALPHA}}"),
                      Replace("{{#DEHALO_FINE_DEHALO}}", ""),
                      Replace("{{/DEHALO_FINE_DEHALO}}", ""),
                      RemoveBlock("{{#DEHALO_YAHR}}", "{{/DEHALO_YAHR}}"),
                      OptionalInt("DEHALO_LOW_THRESHOLD", Some(dehalo.low_threshold)),
                      OptionalInt("DEHALO_HIGH_THRESHOLD", Some(dehalo.high_threshold)) >>
              [] dehalo.method = "Yahr" ->
                   << RemoveBlock("{{#DEHALO_DEHALO_ALPHA}}", "{{/DEHALO_DEHALO_ALPHA}}"),
                      RemoveBlock("{{#DEHALO_FINE_DEHALO}}", "{{/DEHALO_FINE_DEHALO}}"),
                      Replace("{{#DEHALO_YAHR}}", ""),
                      Replace("{{/DEHALO_YAHR}}", ""),
                      OptionalInt("DEHALO_YAHR_BLUR", Some(dehalo.yahr_blur)),
                      OptionalInt("DEHALO_YAHR_DEPTH", Some(dehalo.yahr_depth)) >>)
         \o (IF dehalo.method # "Yahr"
             THEN << OptionalDouble("DEHALO_RX", Some(dehalo.rx)),
                     OptionalDouble("DEHALO_RY", Some(dehalo.ry)),
                     OptionalDouble("DEHALO_DARKSTR", Some(dehalo.dark_str)),
                     OptionalDouble("DEHALO_BRIGHTSTR", Some(dehalo.bright_str)) >>
             ELSE << >>)
    ELSE << RemoveBlock("{{#DEHALO}}", "{{/DEHALO}}") >>

\* script_generator.rs:369-395
deblock_pass(deblock) ==
    IF deblock.enabled
    THEN << Replace("{{#DEBLOCK}}", ""),
            Replace("{{/DEBLOCK}}", "") >>
         \o (CASE deblock.method = "DeblockQed" ->
                   << Replace("{{#DEBLOCK_QED}}", ""),
                      Replace("{{/DEBLOCK_QED}}", ""),
                      RemoveBlock("{{#DEBLOCK_SIMPLE}}", "{{/DEBLOCK_SIMPLE}}"),
                      OptionalInt("DEBLOCK_QUANT1", Some(deblock.quant1)),
                      OptionalInt("DEBLOCK_QUANT2", Some(deblock.quant2)),
                      OptionalInt("DEBLOCK_AOFFSET1", Some(deblock.a_offset1)),
                      OptionalInt("DEBLOCK_AOFFSET2", Some(deblock.a_offset2)) >>
              [] deblock.method = "Deblock" ->
                   << RemoveBlock("{{#DEBLOCK_QED}}", "{{/DEBLOCK_QED}}"),
                      Replace("{{#DEBLOCK_SIMPLE}}", ""),
                      Replace("{{/DEBLOCK_SIMPLE}}", ""),
                      OptionalInt("DEBLOCK_QUANT1", Some(deblock.quant1)) >>)
    ELSE << RemoveBlock("{{#DEBLOCK}}", "{{/DEBLOCK}}") >>

\* script_generator.rs:400-415
deband_pass(deband) ==
    IF deband.enabled
    THEN << Replace("{{#DEBAND}}", ""),
            Replace("{{/DEBAND}}", ""),
            OptionalInt("DEBAND_RANGE", Some(deband.range)),
            OptionalInt("DEBAND_Y", Some(deband.y)),
            OptionalInt("DEBAND_CB", Some(deband.cb)),
            OptionalInt("DEBAND_CR", Some(deband.cr)),
            OptionalInt("DEBAND_GRAINY", Some(deband.grain_y)),
            OptionalInt("DEBAND_GRAINC", Some(deband.grain_c)),
            OptionalBool("DEBAND_DYNAMIC_GRAIN", Some(deband.dynamic_grain)),
            OptionalInt("DEBAND_OUTPUT_DEPTH", Some(deband.output_depth)) >>
    ELSE << RemoveBlock("{{#DEBAND}}", "{{/DEBAND}}") >>

\* script_generator.rs:420-446
sharpen_pass(sharpen) ==
    IF sharpen.enabled
    THEN << Replace("{{#SHARPEN}}", ""),
            Replace("{{/SHARPEN}}", "") >>
         \o (CASE sharpen.method = "LSFmod" ->
                   << Replace("{{#SHARPEN_LSFMOD}}", ""),
                      Replace("{{/SHARPEN_LSFMOD}}", ""),
                      RemoveBlock("{{#SHARPEN_CAS}}", "{{/SHARPEN_CAS}}"),
                      OptionalInt("SHARPEN_STRENGTH", Some(sharpen.strength)),
                      OptionalInt("SHARPEN_OVERSHOOT", Some(sharpen.overshoot)),
                      OptionalInt("SHARPEN_UNDERSHOOT", Some(sharpen.undershoot)),
                      OptionalInt("SHARPEN_SOFT_EDGE", Some(sharpen.soft_edge)) >>
              [] sharpen.method = "CAS" ->
                   << RemoveBlock("{{#SHARPEN_LSFMOD}}", "{{/SHARPEN_LSFMOD}}"),
                      Replace("{{#SHARPEN_CAS}}", ""),
                      Replace("{{/SHARPEN_CAS}}", ""),
                      OptionalDouble("SHARPEN_CAS_SHARPNESS", Some(sharpen.cas_sharpness)) >>)
    ELSE << RemoveBlock("{{#SHARPEN}}", "{{/SHARPEN}}") >>

\* script_generator.rs:451-492
chroma_fixes_pass(chroma) ==
    IF chroma.enabled
    THEN << Replace("{{#CHROMA_FIXES}}", ""),
            Replace("{{/CHROMA_FIXES}}", "") >>
         \o (IF chroma.apply_chroma_bleeding_fix
             THEN << Replace("{{#CHROMA_FIX_BLEEDING}}", ""),
                     Replace("{{/CHROMA_FIX_BLEEDING}}", ""),
                     OptionalInt("CHROMA_CX", Some(chroma.chroma_bleed_cx)),
                     OptionalInt("CHROMA_CY", Some(chroma.chroma_bleed_cy)),
                     OptionalDouble("CHROMA_THR", Some(chroma.chroma_bleed_c_blur)),
                     OptionalDouble("CHROMA_STRENGTH", Some(chroma.chroma_bleed_strength)) >>
             ELSE << RemoveBlock("{{#CHROMA_FIX_BLEEDING}}", "{{/CHROMA_FIX_BLEEDING}}") >>)
         \o (IF chroma.apply_de_crawl
             THEN << Replace("{{#CHROMA_DECRAWL}}", ""),
                     Replace("{{/CHROMA_DECRAWL}}", ""),
                     OptionalInt("DECRAWL_YTHRESH", Some(chroma.de_crawl_y_thresh)),
                     OptionalInt("DECRAWL_CTHRESH", Some(chroma.de_crawl_c_thresh)),
                     OptionalInt("DECRAWL_MAXDIFF", Some(chroma.de_crawl_max_diff)) >>
             ELSE << RemoveBlock("{{#CHROMA_DECRAWL}}", "{{/CHROMA_DECRAWL}}") >>)
         \o (IF chroma.apply_vinverse
             THEN << Replace("{{#CHROMA_VINVERSE}}", ""),
                     Replace("{{/CHROMA_VINVERSE}}", ""),
                     OptionalDouble("VINVERSE_SSTR", Some(chroma.vinverse_sstr)),
                     OptionalInt("VINVERSE_AMNT", Some(chroma.vinverse_amnt)) >>
             ELSE << RemoveBlock("{{#CHROMA_VINVERSE}}", "{{/CHROMA_VINVERSE}}") >>)
    ELSE << RemoveBlock("{{#CHROMA_FIXES}}", "{{/CHROMA_FIXES}}") >>

\* script_generator.rs:503-506
has_tweak(color) ==
    \/ Abs(color.brightness - 0) > 10
    \/ Abs(color.contrast - 10000) > 10
    \/ Abs(color.saturation - 10000) > 10
    \/ Abs(color.hue - 0) > 10

\* script_generator.rs:520-524
has_levels(color) ==
    \/ color.input_low # 0
    \/ color.input_high # 255
    \/ color.output_low # 0
    \/ color.output_high # 255
    \/ Abs(color.gamma - 10000) > 10

\* script_generator.rs:497-539
color_correction_pass(color) ==
    IF color.enabled
    THEN << Replace("{{#COLOR_CORRECTION}}", ""),
            Replace("{{/COLOR_CORRECTION}}", "") >>
         \o (IF has_tweak(color)
             THEN << Replace("{{#COLOR_TWEAK}}", ""),
                     Replace("{{/COLOR_TWEAK}}", ""),
                     OptionalDouble("COLOR_BRIGHTNESS", IF color.brightness # 0 THEN Some(color.brightness) ELSE None),
                     OptionalDouble("COLOR_CONTRAST", IF color.contrast # 10000 THEN Some(color.contrast) ELSE None),
                     OptionalDouble("COLOR_SATURATION", IF color.saturation # 10000 THEN Some(color.saturation) ELSE None),
                     OptionalDouble("COLOR_HUE", IF color.hue # 0 THEN Some(color.hue) ELSE None) >>
             ELSE << RemoveBlock("{{#COLOR_TWEAK}}", "{{/COLOR_TWEAK}}") >>)
         \o (IF has_levels(color)
             THEN << Replace("{{#COLOR_LEVELS}}", ""),
                     Replace("{{/COLOR_LEVELS}}", ""),
                     OptionalInt("LEVELS_INPUT_LOW", IF color.input_low # 0 THEN Some(color.input_low) ELSE None),
                     OptionalInt("LEVELS_INPUT_HIGH", IF color.input_high # 255 THEN Some(color.input_high) ELSE None),
                     OptionalInt("LEVELS_OUTPUT_LOW", IF color.output_low # 0 THEN Some(color.output_low) ELSE None),
                     OptionalInt("LEVELS_OUTPUT_HIGH", IF color.output_high # 255 THEN Some(color.output_high) ELSE None),
                     OptionalDouble("LEVELS_GAMMA", IF Abs(color.gamma - 10000) > 10 THEN Some(color.gamma) ELSE None) >>
             ELSE << RemoveBlock("{{#COLOR_LEVELS}}", "{{/COLOR_LEVELS}}") >>)
    ELSE << RemoveBlock("{{#COLOR_CORRECTION}}", "{{/COLOR_CORRECTION}}") >>

\* Option::unwrap_or (script_generator.rs:582-583)
unwrap_or(option, default) == IF option # None THEN option[1] ELSE default

\* script_generator.rs:544-631
resize_pass(resize) ==
    IF resize.enabled /\ (resize.resize_enabled \/ resize.use_integer_upscale)
    THEN << Replace("{{#RESIZE}}", ""),
            Replace("{{/RESIZE}}", "") >>
         \o (IF resize.use_integer_upscale
             THEN << Replace("{{#RESIZE_INTEGER_UPSCALE}}", ""),
                     Replace("{{/RESIZE_INTEGER_UPSCALE}}", ""),
                     Replace("{{UPSCALE_FACTOR}}", FormatInt(resize.upscale_factor)) >>
                  \o (CASE resize.upscale_method = "Nnedi3Rpow2" ->
                            << Replace("{{#UPSCALE_NNEDI3}}", ""),
                               Replace("{{/UPSCALE_NNEDI3}}", ""),
                               RemoveBlock("{{#UPSCALE_EEDI3}}", "{{/UPSCALE_EEDI3}}") >>
                       [] resize.upscale_method = "Eedi3Rpow2" ->
                            << RemoveBlock("{{#UPSCALE_NNEDI3}}", "{{/UPSCALE_NNEDI3}}"),
                               Replace("{{#UPSCALE_EEDI3}}", ""),
                               Replace("{{/UPSCALE_EEDI3}}", "") >>
                       [] resize.upscale_method = "Spline36" ->
                            << RemoveBlock("{{#UPSCALE_NNEDI3}}", "{{/UPSCALE_NNEDI3}}"),
                               RemoveBlock("{{#UPSCALE_EEDI3}}", "{{/UPSCALE_EEDI3}}") >>)
             ELSE << RemoveBlock("{{#RESIZE_INTEGER_UPSCALE}}", "{{/RESIZE_INTEGER_UPSCALE}}") >>)
         \o (IF resize.resize_enabled
             THEN LET width == unwrap_or(resize.target_width, -1)
                      height == unwrap_or(resize.target_height, -1)
                  IN  << Replace("{{#RESIZE_STANDARD}}", ""),
                         Replace("{{/RESIZE_STANDARD}}", "") >>
                      \o << Replace("{{TARGET_WIDTH}}", FormatInt(width)),
                            Replace("{{TARGET_HEIGHT}}", FormatInt(height)) >>
                      \o (IF resize.maintain_aspect
                          THEN << Replace("{{#MAINTAIN_ASPECT}}", ""),
                                  Replace("{{/MAINTAIN_ASPECT}}", "") >>
                          ELSE << RemoveBlock("{{#MAINTAIN_ASPECT}}", "{{/MAINTAIN_ASPECT}}") >>)
                      \o (CASE resize.kernel \in {"Spline36", "Nnedi3", "Eedi3"} ->
                                << Replace("{{#RESIZE_SPLINE36}}", ""),
                                     Replace("{{/RESIZE_SPLINE36}}", ""),
                                     RemoveBlock("{{#RESIZE_LANCZOS}}", "{{/RESIZE_LANCZOS}}"),
                                     RemoveBlock("{{#RESIZE_BICUBIC}}", "{{/RESIZE_BICUBIC}}"),
                                     RemoveBlock("{{#RESIZE_BILINEAR}}", "{{/RESIZE_BILINEAR}}") >>
                           [] resize.kernel = "Lanczos" ->
                                << RemoveBlock("{{#RESIZE_SPLINE36}}", "{{/RESIZE_SPLINE36}}"),
                                     Replace("{{#RESIZE_LANCZOS}}", ""),
                                     Replace("{{/RESIZE_LANCZOS}}", ""),
                                     RemoveBlock("{{#RESIZE_BICUBIC}}", "{{/RESIZE_BICUBIC}}"),
                                     RemoveBlock("{{#RESIZE_BILINEAR}}", "{{/RESIZE_BILINEAR}}") >>
                           [] resize.kernel = "Bicubic" ->
                                << RemoveBlock("{{#RESIZE_SPLINE36}}", "{{/RESIZE_SPLINE36}}"),
                                     RemoveBlock("{{#RESIZE_LANCZOS}}", "{{/RESIZE_LANCZOS}}"),
                                     Replace("{{#RESIZE_BICUBIC}}", ""),
                                     Replace("{{/RESIZE_BICUBIC}}", ""),
                                     RemoveBlock("{{#RESIZE_BILINEAR}}", "{{/RESIZE_BILINEAR}}") >>
                           [] resize.kernel = "Bilinear" ->
                                << RemoveBlock("{{#RESIZE_SPLINE36}}", "{{/RESIZE_SPLINE36}}"),
                                     RemoveBlock("{{#RESIZE_LANCZOS}}", "{{/RESIZE_LANCZOS}}"),
                                     RemoveBlock("{{#RESIZE_BICUBIC}}", "{{/RESIZE_BICUBIC}}"),
                                     Replace("{{#RESIZE_BILINEAR}}", ""),
                                     Replace("{{/RESIZE_BILINEAR}}", "") >>)
             ELSE << RemoveBlock("{{#RESIZE_STANDARD}}", "{{/RESIZE_STANDARD}}") >>)
    ELSE << RemoveBlock("{{#RESIZE}}", "{{/RESIZE}}") >>

(***************************************************************************)
(* Parameter sets (models/*.rs) with the values of their Default impls.    *)
(***************************************************************************)
\* QTGMCParameters::default() (qtgmc_parameters.rs:350-433); preset is the
\* text of QTGMCPreset::as_str.
DefaultQTGMCParameters ==
    [enabled |-> TRUE, preset |-> "Slower", input_type |-> 0, tff |-> None,
     fps_divisor |-> 1, tr0 |-> None, tr1 |-> None, tr2 |-> None,
     rep0 |-> None, rep1 |-> 0, rep2 |-> None, rep_chroma |-> TRUE,
     edi_mode |-> None, nn_size |-> None, nn_neurons |-> None, edi_qual |-> 1,
     edi_max_d |-> None, chroma_edi |-> "", block_size |-> None,
     overlap |-> None, search |-> None, search_param |-> None,
     pel_search |-> None, chroma_motion |-> None, true_motion |-> FALSE,
     lambda |-> None, lsad |-> None, p_new |-> None, p_level |-> None,
     global_motion |-> TRUE, dct |-> 0, sub_pel |-> None, sub_pel_interp |-> 2,
     th_sad1 |-> 640, th_sad2 |-> 256, th_scd1 |-> 180, th_scd2 |-> 98,
     sharpness |-> None, s_mode |-> None, sl_mode |-> None, sl_rad |-> None,
     s_ovs |-> 0, sv_thin |-> 0, sbb |-> None, srch_clip_pp |-> None,
     noise_process |-> None, ez_denoise |-> None, ez_keep_grain |-> None,
     noise_preset |-> "Fast", denoiser |-> None, fft_threads |-> 1,
     denoise_mc |-> None, noise_tr |-> None, sigma |-> None,
     chroma_noise |-> FALSE, show_noise |-> 0, grain_restore |-> None,
     noise_restore |-> None, noise_deint |-> None, stabilize_noise |-> None,
     source_match |-> 0, match_preset |-> None, match_edi |-> None,
     match_preset2 |-> None, match_edi2 |-> None, match_tr2 |-> 1,
     match_enhance |-> 5000, lossless |-> 0, border |-> FALSE,
     precise |-> None, force_tr |-> 0, opencl |-> FALSE, device |-> None]

\* NoiseReductionParameters::default() (noise_reduction_parameters.rs:99-117)
DefaultNoiseReductionParameters ==
    [enabled |-> FALSE, method |-> "SmDegrain", sm_degrain_tr |-> 2,
     sm_degrain_th_sad |-> 300, sm_degrain_th_sadc |-> 150,
     sm_degrain_refine |-> TRUE, sm_degrain_prefilter |-> 2,
     mc_temporal_sigma |-> 40000, mc_temporal_radius |-> 2]

\* DehaloParameters::default() (dehalo_parameters.rs:86-101)
DefaultDehaloParameters ==
    [enabled |-> FALSE, method |-> "DehaloAlpha", rx |-> 20000, ry |-> 20000,
     dark_str |-> 10000, bright_str |-> 10000, low_threshold |-> 50,
     high_threshold |-> 100, yahr_blur |-> 2, yahr_depth |-> 32]

\* DeblockParameters::default() (deblock_parameters.rs:70-83)
DefaultDeblockParameters ==
    [enabled |-> FALSE, method |-> "DeblockQed", quant1 |-> 24, quant2 |-> 26,
     a_offset1 |-> 1, a_offset2 |-> 1]

\* DebandParameters::default() (deband_parameters.rs:56-70)
DefaultDebandParameters ==
    [enabled |-> FALSE, range |-> 15, y |-> 32, cb |-> 32, cr |-> 32,
     grain_y |-> 24, grain_c |-> 24, dynamic_grain |-> TRUE,
     output_depth |-> 16]

\* SharpenParameters::default() (sharpen_parameters.rs:64-76)
DefaultSharpenParameters ==
    [enabled |-> FALSE, method |-> "LSFmod", strength |-> 100,
     overshoot |-> 1, undershoot |-> 1, soft_edge |-> 0,
     cas_sharpness |-> 5000]

\* ChromaFixParameters::default() (chroma_fix_parameters.rs:98-118)
DefaultChromaFixParameters ==
    [enabled |-> FALSE, apply_chroma_bleeding_fix |-> FALSE,
     chroma_bleed_cx |-> 4, chroma_bleed_cy |-> 4,
     chroma_bleed_c_blur |-> 7000, chroma_bleed_strength |-> 10000,
     apply_de_crawl |-> FALSE, de_crawl_y_thresh |-> 10,
     de_crawl_c_thresh |-> 10, de_crawl_max_diff |-> 50,
     apply_vinverse |-> FALSE, vinverse_sstr |-> 27000, vinverse_amnt |-> 255]

\* ColorCorrectionParameters::default() (color_correction_parameters.rs:82-100)
DefaultColorCorrectionParameters ==
    [enabled |-> FALSE, brightness |-> 0, contrast |-> 10000, hue |-> 0,
     saturation |-> 10000, input_low |-> 0, input_high |-> 255,
     output_low |-> 0, output_high |-> 255, gamma |-> 10000]

\* CropResizeParameters::default() (crop_resize_parameters.rs:129-149)
DefaultCropResizeParameters ==
    [enabled |-> FALSE, crop_enabled |-> FALSE, crop_left |-> 0,
     crop_right |-> 0, crop_top |-> 0, crop_bottom |-> 0,
     resize_enabled |-> FALSE, target_width |-> None, target_height |-> None,
     kernel |-> "Spline36", maintain_aspect |-> TRUE,
     use_integer_upscale |-> FALSE, upscale_method |-> "Nnedi3Rpow2",
     upscale_factor |-> 2]

\* RestorationPipeline::from_legacy (restoration_pipeline.rs:83-93): the
\* legacy set becomes the deinterlace stage, every other stage is its default
\* with enabled = false.
from_legacy(qtgmc_params) ==
    [deinterlace |-> qtgmc_params,
     noise_reduction |-> [DefaultNoiseReductionParameters EXCEPT !.enabled = FALSE],
     dehalo |-> [DefaultDehaloParameters EXCEPT !.enabled = FALSE],
     deblock |-> [DefaultDeblockParameters EXCEPT !.enabled = FALSE],
     deband |-> [DefaultDebandParameters EXCEPT !.enabled = FALSE],
     sharpen |-> [DefaultSharpenParameters EXCEPT !.enabled = FALSE],
     color_correction |-> [DefaultColorCorrectionParameters EXCEPT !.enabled = FALSE],
     chroma_fixes |-> [DefaultChromaFixParameters EXCEPT !.enabled = FALSE],
     crop_resize |-> [DefaultCropResizeParameters EXCEPT !.enabled = FALSE]]

\* A job whose multi-stage pipeline is ignored.
effective_pipeline_legacy_only(j) == from_legacy(j.qtgmc_parameters)

\* VideoJob::effective_pipeline (video_job.rs:47-51)
effective_pipeline(j) ==
    IF j.restoration_pipeline # None
    THEN j.restoration_pipeline[1]
    ELSE from_legacy(j.qtgmc_parameters)

(***************************************************************************)
(* Jobs handed to the generator                                            *)
(***************************************************************************)
\* A path as its separator and components.
RECURSIVE Join(_, _)
Join(parts, sep) ==
    IF Len(parts) = 1 THEN Head(parts)
    ELSE Head(parts) \o sep \o Join(Tail(parts), sep)

\* str::replace('\\', "\\\\"): every backslash is doubled.
EscapeBackslashes(p) == Join(p.parts, IF p.sep = "\\" THEN "\\\\" ELSE p.sep)

InputPaths == { [sep |-> "/",  parts |-> <<"videos", "in.avi">>],
                [sep |-> "\\", parts |-> <<"videos", "in.avi">>] }

\* PreviewParams built by PipelineExecutor::generate_preview
\* (pipeline_executor.rs:321-334) for the default frame rate 29.97.
PreviewParamsOf(j) ==
    [video_path |-> [sep |-> j.input_path.sep, parts |-> <<"tmp", "preview_clip.mkv">>],
     fps_num |-> 29970,
     fps_den |-> 1000,
     field_based |-> IF j.qtgmc_parameters.tff = Some(TRUE) THEN 2 ELSE 1]

\* Legacy parameter sets: the switch and the four values the built-in
\* templates print.
QtgmcChoices ==
    { [DefaultQTGMCParameters EXCEPT !.enabled = e, !.tff = t,
                                     !.fps_divisor = d, !.opencl = o] :
        e \in BOOLEAN, t \in {None, Some(TRUE)}, d \in {1, 2}, o \in BOOLEAN }

\* A pipeline whose stages are all switched to `on` with default settings.
UniformPipeline(on) ==
    [deinterlace |-> [DefaultQTGMCParameters EXCEPT !.enabled = on],
     noise_reduction |-> [DefaultNoiseReductionParameters EXCEPT !.enabled = on],
     dehalo |-> [DefaultDehaloParameters EXCEPT !.enabled = on],
     deblock |-> [DefaultDeblockParameters EXCEPT !.enabled = on],
     deband |-> [DefaultDebandParameters EXCEPT !.enabled = on],
     sharpen |-> [DefaultSharpenParameters EXCEPT !.enabled = on],
     color_correction |-> [DefaultColorCorrectionParameters EXCEPT !.enabled = on],
     chroma_fixes |-> [DefaultChromaFixParameters EXCEPT !.enabled = on],
     crop_resize |-> [DefaultCropResizeParameters EXCEPT !.enabled = on]]

StageChoices ==
    [deinterlace |-> {[DefaultQTGMCParameters EXCEPT !.enabled = e] : e \in BOOLEAN},
     noise_reduction |->
        { [DefaultNoiseReductionParameters EXCEPT !.enabled = TRUE, !.method = m,
                                                  !.sm_degrain_tr = tr] :
            m \in {"SmDegrain", "McTemporalDenoise", "QtgmcBuiltin"},
            tr \in {2, 3} }
            \cup {DefaultNoiseReductionParameters},
     dehalo |->
        { [DefaultDehaloParameters EXCEPT !.enabled = TRUE, !.method = m,
                                          !.rx = rx] :
            m \in {"DehaloAlpha", "FineDehalo", "Yahr"}, rx \in {20000, 25000} }
            \cup {DefaultDehaloParameters},
     deblock |->
        { [DefaultDeblockParameters EXCEPT !.enabled = TRUE, !.method = m] :
            m \in {"DeblockQed", "Deblock"} }
            \cup {DefaultDeblockParameters},
     deband |->
        { [DefaultDebandParameters EXCEPT !.enabled = e] : e \in BOOLEAN },
     sharpen |->
        { [DefaultSharpenParameters EXCEPT !.enabled = TRUE, !.method = m] :
            m \in {"LSFmod", "CAS"} }
            \cup {DefaultSharpenParameters},
     color_correction |->
        { [DefaultColorCorrectionParameters EXCEPT !.enabled = TRUE,
                                                   !.brightness = b,
                                                   !.contrast = c,
                                                   !.input_low = l,
                                                   !.gamma = g] :
            b \in {0, -1000, 5}, c \in {10000, 15000}, l \in {0, 16},
            g \in {10000, 10005, 12000} }
            \cup {DefaultColorCorrectionParameters},
     chroma_fixes |->
        { [DefaultChromaFixParameters EXCEPT !.enabled = TRUE,
                                             !.apply_chroma_bleeding_fix = b,
                                             !.apply_de_crawl = c,
                                             !.apply_vinverse = v] :
            b \in BOOLEAN, c \in BOOLEAN, v \in BOOLEAN }
            \cup {DefaultChromaFixParameters},
     crop_resize |->
        ({ [DefaultCropResizeParameters EXCEPT !.enabled = TRUE, !.crop_enabled = c,
                                               !.crop_left = l] :
             c \in BOOLEAN, l \in {0, 8} })
        \cup
        ({ [DefaultCropResizeParameters EXCEPT !.enabled = TRUE,
                                               !.use_integer_upscale = TRUE,
                                               !.upscale_method = m,
                                               !.resize_enabled = r] :
             m \in {"Nnedi3Rpow2", "Eedi3Rpow2", "Spline36"}, r \in BOOLEAN })
        \cup
        ({ [DefaultCropResizeParameters EXCEPT !.enabled = TRUE,
                                               !.resize_enabled = TRUE,
                                               !.kernel = k,
                                               !.maintain_aspect = a,
                                               !.target_width = w] :
             k \in {"Spline36", "Lanczos", "Bicubic", "Bilinear", "Nnedi3", "Eedi3"},
             a \in BOOLEAN, w \in {None, Some(1280)} })
        \cup {DefaultCropResizeParameters}]

Stages == DOMAIN StageChoices

\* Pipelines: one stage takes any of its choices, the others are uniformly on
\* or off with their default settings.
Pipelines ==
    UNION { { [UniformPipeline(on) EXCEPT ![st] = c] : c \in StageChoices[st] } :
              on \in BOOLEAN, st \in Stages }

\* Legacy jobs, and jobs that carry a pipeline; of the latter,
\* job.qtgmc_parameters is the default set or one that disagrees with
\* pipeline.deinterlace.
GenJobs ==
    { [input_path |-> p, qtgmc_parameters |-> q, restoration_pipeline |-> None] :
        p \in InputPaths, q \in QtgmcChoices }
    \cup
    { [input_path |-> [sep |-> "/", parts |-> <<"videos", "in.avi">>],
       qtgmc_parameters |-> q, restoration_pipeline |-> Some(pl)] :
        q \in {DefaultQTGMCParameters,
                 [DefaultQTGMCParameters EXCEPT !.enabled = FALSE, !.tff = Some(TRUE),
                                                !.fps_divisor = 2, !.opencl = TRUE]},
        pl \in Pipelines }

(***************************************************************************)
(* ScriptGenerator::generate and ::generate_preview                        *)
(***************************************************************************)
\* script_generator.rs:156-634, the passes in source order.
substitute_parameters_on(s, j, pipeline) ==
    Run(pre_crop_pass(pipeline.crop_resize)
            \o deinterlace_pass(j.qtgmc_parameters, pipeline.deinterlace)
            \o noise_reduction_pass(pipeline.noise_reduction)
            \o dehalo_pass(pipeline.dehalo)
            \o deblock_pass(pipeline.deblock)
            \o deband_pass(pipeline.deband)
            \o sharpen_pass(pipeline.sharpen)
            \o chroma_fixes_pass(pipeline.chroma_fixes)
            \o color_correction_pass(pipeline.color_correction)
            \o resize_pass(pipeline.crop_resize),
        s)

\* script_generator.rs:144-153
substitute_parameters(template, j, pipeline) ==
    substitute_parameters_on(
        replace(template, "{{INPUT_PATH}}", EscapeBackslashes(j.input_path)),
        j, pipeline)

\* A generator that keeps the text it built last and appends it to the next.
generate_accumulating(j) ==
    substitute_parameters(embedded_template, j, effective_pipeline(j)) \o script

\* The script text built by generate (script_generator.rs:45-46); no template
\* file is installed, so the loader returned embedded_template().
generate(j) == substitute_parameters(embedded_template, j, effective_pipeline(j))

\* The script text built by generate_preview (script_generator.rs:61-73) from
\* embedded_preview_template().
generate_preview(j, preview_params) ==
    substitute_parameters_on(
        Run(<< Replace("{{VIDEO_PATH}}", EscapeBackslashes(preview_params.video_path)),
               Replace("{{FPS_NUM}}", FormatInt(preview_params.fps_num)),
               Replace("{{FPS_DEN}}", FormatInt(preview_params.fps_den)),
               Replace("{{FIELD_BASED}}", FormatInt(preview_params.field_based)) >>,
            embedded_preview_template),
        j, effective_pipeline(j))

\* The worker is at the call of the generator and does not move.
InitAtGenerator ==
    /\ pc = "generate_script"
    /\ args = [preview |-> FALSE, frame |-> FALSE, config |-> <<"jobs", "job.json">>]
    /\ cancelled = FALSE
    /\ handlerInstalled = TRUE
    /\ job = NoJob
    /\ events = <<>>
    /\ procs = [vspipe |-> NoProc, ffmpeg |-> NoProc]
    /\ vspipe_process = "None"
    /\ ffmpeg_process = "None"
    /\ executor = "none"
    /\ tpc = "idle"
    /\ total_frames = 0
    /\ vsRead = 0
    /\ ffRead = 0
    /\ line = NoLine
    /\ current_frame = 0
    /\ current_fps = 0
    /\ elapsed = 0
    /\ vspipe_status = <<>>
    /\ ffmpeg_status = <<>>
    /\ result = NoResult
    /\ files = NoFiles
    /\ removeCalls = 0
    /\ exitCode = -1

InitGen ==
    /\ InitAtGenerator
    /\ InitLibIdle
    /\ gpc = "new"
    /\ gjob \in GenJobs
    /\ entry \in {"generate", "generate_preview"}
    /\ script = << >>

\* ScriptGenerator::new (script_generator.rs:36-41): load both templates;
\* env::current_exe()? can fail.
NewGenerator ==
    /\ gpc = "new"
    /\ gpc' \in {"ready", "failed"}
    /\ UNCHANGED <<gjob, entry, script, workerVars, libVars>>

\* generate (script_generator.rs:44-56): build the text, write the file.
Generate ==
    /\ gpc = "ready"
    /\ entry = "generate"
    /\ script' = generate(gjob)
    /\ gpc' \in {"done", "write_failed"}
    /\ UNCHANGED <<gjob, entry, workerVars, libVars>>

\* generate_preview (script_generator.rs:60-84)
GeneratePreview ==
    /\ gpc = "ready"
    /\ entry = "generate_preview"
    /\ script' = generate_preview(gjob, PreviewParamsOf(gjob))
    /\ gpc' \in {"done", "write_failed"}
    /\ UNCHANGED <<gjob, entry, workerVars, libVars>>

\* A second call of the same entry point on the same generator (&self) with
\* the same job: the text is built again from the template the generator
\* holds.
GenerateAgain ==
    /\ gpc = "done"
    /\ script' = IF entry = "generate" THEN generate(gjob)
                 ELSE generate_preview(gjob, PreviewParamsOf(gjob))
    /\ gpc' = "done_again"
    /\ UNCHANGED <<gjob, entry, workerVars, libVars>>

NextGen ==
    \/ NewGenerator
    \/ Generate
    \/ GeneratePreview
    \/ GenerateAgain

SpecGen == InitGen /\ [][NextGen]_vars

(***************************************************************************)
(* Properties of the generated script                                      *)
(***************************************************************************)
\* The filter invocations of each stage in the built-in templates.
StageInvocations ==
    [deinterlace |-> {"clip = haf.QTGMC(\n"},
     noise_reduction |-> {"clip = haf.SMDegrain(\n",
                          "clip = haf.MCTemporalDenoise(\n",
                          "clip = mvf.BM3D(\n"},
     dehalo |-> {"clip = haf.DeHalo_alpha(\n", "clip = haf.FineDehalo(\n",
                 "clip = haf.YAHR(\n"},
     deblock |-> {"clip = haf.Deblock_QED(\n", "clip = core.deblock.Deblock(\n"},
     deband |-> {"clip = core.neo_f3kdb.Deband(\n"},
     sharpen |-> {"clip = haf.LSFmod(\n", "clip = core.cas.CAS(\n"},
     color_correction |-> {"clip = adjust.Tweak(\n", "clip = core.std.Levels(\n"},
     chroma_fixes |-> {"clip = haf.FixChromaBleedingMod(\n",
                       "clip = haf.LUTDeCrawl(\n", "clip = haf.Vinverse(\n"},
     crop_resize |-> {"clip = core.std.Crop(clip, left=",
                      "def nnedi3_2x(c):\n",
                      "clip = core.resize.Spline36(clip, width=clip.width * ",
                      "clip = core.resize.Spline36(clip, width=target_w, height=target_h)\n",
                      "clip = core.resize.Lanczos(clip, width=target_w, height=target_h)\n",
                      "clip = core.resize.Bicubic(clip, width=target_w, height=target_h)\n",
                      "clip = core.resize.Bilinear(clip, width=target_w, height=target_h)\n"}]

\* C9: in the script produced by generate, a stage whose parameter set has
\* enabled = false leaves no filter invocation of that stage, with the
\* built-in fallback template as with any other.
C9_DisabledStageAbsent ==
    (gpc = "done" /\ entry = "generate") =>
        \A st \in Stages :
            ~effective_pipeline(gjob)[st].enabled =>
                StageInvocations[st] \cap Range(script) = {}

\* The first line of each method sub-block of the built-in preview template.
BlockInvocation ==
    [NR_SMDEGRAIN |-> "clip = haf.SMDegrain(\n",
     NR_MCTD |-> "clip = haf.MCTemporalDenoise(\n",
     NR_BM3D |-> "clip = mvf.BM3D(\n",
     DEHALO_DEHALO_ALPHA |-> "clip = haf.DeHalo_alpha(\n",
     DEHALO_FINE_DEHALO |-> "clip = haf.FineDehalo(\n",
     DEHALO_YAHR |-> "clip = haf.YAHR(\n",
     DEBLOCK_QED |-> "clip = haf.Deblock_QED(\n",
     DEBLOCK_SIMPLE |-> "clip = core.deblock.Deblock(\n",
     SHARPEN_LSFMOD |-> "clip = haf.LSFmod(\n",
     SHARPEN_CAS |-> "clip = core.cas.CAS(\n",
     UPSCALE_NNEDI3 |-> "def nnedi3_2x(c):\n",
     UPSCALE_EEDI3 |-> "clip = core.resize.Spline36(clip, width=clip.width * ",
     RESIZE_SPLINE36 |-> "clip = core.resize.Spline36(clip, width=target_w, height=target_h)\n",
     RESIZE_LANCZOS |-> "clip = core.resize.Lanczos(clip, width=target_w, height=target_h)\n",
     RESIZE_BICUBIC |-> "clip = core.resize.Bicubic(clip, width=target_w, height=target_h)\n",
     RESIZE_BILINEAR |-> "clip = core.resize.Bilinear(clip, width=target_w, height=target_h)\n"]

\* The method sub-blocks of each selector.
MethodBlocks ==
    [noise_reduction |-> {"NR_SMDEGRAIN", "NR_MCTD", "NR_BM3D"},
     dehalo |-> {"DEHALO_DEHALO_ALPHA", "DEHALO_FINE_DEHALO", "DEHALO_YAHR"},
     deblock |-> {"DEBLOCK_QED", "DEBLOCK_SIMPLE"},
     sharpen |-> {"SHARPEN_LSFMOD", "SHARPEN_CAS"},
     upscale |-> {"UPSCALE_NNEDI3", "UPSCALE_EEDI3"},
     kernel |-> {"RESIZE_SPLINE36", "RESIZE_LANCZOS", "RESIZE_BICUBIC",
                 "RESIZE_BILINEAR"}]

Selectors == DOMAIN MethodBlocks

\* The selector's stage is enabled and its part of the stage is switched on.
SelectorActive(p, sel) ==
    CASE sel = "noise_reduction" -> p.noise_reduction.enabled
      [] sel = "dehalo" -> p.dehalo.enabled
      [] sel = "deblock" -> p.deblock.enabled
      [] sel = "sharpen" -> p.sharpen.enabled
      [] sel = "upscale" -> p.crop_resize.enabled /\ p.crop_resize.use_integer_upscale
      [] sel = "kernel" -> p.crop_resize.enabled /\ p.crop_resize.resize_enabled

\* The sub-blocks of a selector whose content is in the script.
Retained(sel) ==
    {b \in MethodBlocks[sel] : BlockInvocation[b] \in Range(script)}

\* C10 as stated: for each enabled stage with several methods exactly one
\* method sub-block is retained, for every value of the selector.
C10_ExactlyOneRetained ==
    (gpc = "done" /\ entry = "generate_preview") =>
        \A sel \in Selectors :
            SelectorActive(effective_pipeline(gjob), sel) =>
                Cardinality(Retained(sel)) = 1

\* The sub-blocks the selected method is meant to keep.
SelectedBlocks(p, sel) ==
    CASE sel = "noise_reduction" ->
             (CASE p.noise_reduction.method = "SmDegrain" -> {"NR_SMDEGRAIN"}
                [] p.noise_reduction.method = "McTemporalDenoise" -> {"NR_MCTD"}
                [] p.noise_reduction.method = "QtgmcBuiltin" -> {})
      [] sel = "dehalo" ->
             (CASE p.dehalo.method = "DehaloAlpha" -> {"DEHALO_DEHALO_ALPHA"}
                [] p.dehalo.method = "FineDehalo" -> {"DEHALO_FINE_DEHALO"}
                [] p.dehalo.method = "Yahr" -> {"DEHALO_YAHR"})
      [] sel = "deblock" ->
             (CASE p.deblock.method = "DeblockQed" -> {"DEBLOCK_QED"}
                [] p.deblock.method = "Deblock" -> {"DEBLOCK_SIMPLE"})
      [] sel = "sharpen" ->
             (CASE p.sharpen.method = "LSFmod" -> {"SHARPEN_LSFMOD"}
                [] p.sharpen.method = "CAS" -> {"SHARPEN_CAS"})
      [] sel = "upscale" ->
             (CASE p.crop_resize.upscale_method = "Nnedi3Rpow2" -> {"UPSCALE_NNEDI3"}
                [] p.crop_resize.upscale_method = "Eedi3Rpow2" -> {"UPSCALE_EEDI3"}
                [] p.crop_resize.upscale_method = "Spline36" -> {})
      [] sel = "kernel" ->
             (CASE p.crop_resize.kernel \in {"Spline36", "Nnedi3", "Eedi3"} ->
                       {"RESIZE_SPLINE36"}
                [] p.crop_resize.kernel = "Lanczos" -> {"RESIZE_LANCZOS"}
                [] p.crop_resize.kernel = "Bicubic" -> {"RESIZE_BICUBIC"}
                [] p.crop_resize.kernel = "Bilinear" -> {"RESIZE_BILINEAR"})

\* C10, amended: for each active selector the retained method sub-blocks are
\* exactly those of the selected method - one block, or none for noise
\* reduction QtgmcBuiltin and for integer upscale Spline36 - and every other
\* sub-block of the selector is removed.
C10_SelectedMethodRetained ==
    (gpc = "done" /\ entry = "generate_preview") =>
        \A sel \in Selectors :
            SelectorActive(effective_pipeline(gjob), sel) =>
                Retained(sel) = SelectedBlocks(effective_pipeline(gjob), sel)

\* A preview script for noise reduction QtgmcBuiltin next to an enabled dehalo
\* stage: no noise reduction sub-block, the DeHalo_alpha sub-block alone.
C10_Witness ==
    /\ gpc = "done"
    /\ entry = "generate_preview"
    /\ effective_pipeline(gjob).noise_reduction.enabled
    /\ effective_pipeline(gjob).noise_reduction.method = "QtgmcBuiltin"
    /\ effective_pipeline(gjob).dehalo.enabled
    /\ Retained("noise_reduction") = {}
    /\ Retained("dehalo") = {"DEHALO_DEHALO_ALPHA"}

\* The numeric parameters of job j that the built-in templates print, each
\* with the text before its placeholder, whether its stage (and method) is
\* switched on, its formatted value, whether it equals the default of the
\* stage's Default impl, and how the generator hands it over: "exact" and
\* "near" are compared with the default (!= and abs() > 0.001), "group" is
\* compared exactly inside a block kept when some member of the group is off
\* its default by more than 0.001, "always" is passed as Some.
NumericParameters(j, e) ==
    LET p == effective_pipeline(j)
        q == j.qtgmc_parameters
        nr == p.noise_reduction
        dh == p.dehalo
        c == p.color_correction
        preview == e = "generate_preview"
        has_group == \/ Abs(c.brightness - DefaultColorCorrectionParameters.brightness) > 10
                     \/ Abs(c.contrast - DefaultColorCorrectionParameters.contrast) > 10
                     \/ Abs(c.saturation - DefaultColorCorrectionParameters.saturation) > 10
                     \/ Abs(c.hue - DefaultColorCorrectionParameters.hue) > 10
    IN  { [name |-> "FPS_DIVISOR", prefix |-> "    FPSDivisor=",
           active |-> p.deinterlace.enabled,
           text |-> FormatInt(q.fps_divisor),
           off |-> Abs(q.fps_divisor - DefaultQTGMCParameters.fps_divisor) * Unit,
           how |-> "exact", group |-> FALSE],
          [name |-> "LEVELS_INPUT_LOW", prefix |-> "    min_in=",
           active |-> preview /\ c.enabled,
           text |-> FormatInt(c.input_low),
           off |-> Abs(c.input_low - DefaultColorCorrectionParameters.input_low) * Unit,
           how |-> "exact", group |-> FALSE],
          [name |-> "LEVELS_GAMMA", prefix |-> "    gamma=",
           active |-> preview /\ c.enabled,
           text |-> FormatDouble(c.gamma * Fine),
           off |-> Abs(c.gamma - DefaultColorCorrectionParameters.gamma),
           how |-> "near", group |-> FALSE],
          [name |-> "COLOR_BRIGHTNESS", prefix |-> "    bright=",
           active |-> preview /\ c.enabled,
           text |-> FormatDouble(c.brightness * Fine),
           off |-> Abs(c.brightness - DefaultColorCorrectionParameters.brightness),
           how |-> "group", group |-> has_group],
          [name |-> "COLOR_CONTRAST", prefix |-> "    cont=",
           active |-> preview /\ c.enabled,
           text |-> FormatDouble(c.contrast * Fine),
           off |-> Abs(c.contrast - DefaultColorCorrectionParameters.contrast),
           how |-> "group", group |-> has_group],
          [name |-> "NR_TR", prefix |-> "    tr=",
           active |-> preview /\ nr.enabled /\ nr.method = "SmDegrain",
           text |-> FormatInt(nr.sm_degrain_tr),
           off |-> Abs(nr.sm_degrain_tr - DefaultNoiseReductionParameters.sm_degrain_tr) * Unit,
           how |-> "always", group |-> FALSE],
          [name |-> "DEHALO_RX", prefix |-> "    rx=",
           active |-> preview /\ dh.enabled /\ dh.method # "Yahr",
           text |-> FormatDouble(dh.rx * Fine),
           off |-> Abs(dh.rx - DefaultDehaloParameters.rx),
           how |-> "always", group |-> FALSE] }

\* The script prints `text` right after `prefix`, and no marker of the name
\* is left.
Rendered(x) ==
    /\ \E i \in 1..(Len(script) - 1) : script[i] = x.prefix /\ script[i + 1] = x.text
    /\ Range(script) \cap {StartTag(x.name), EndTag(x.name), Placeholder(x.name)} = {}

\* The script holds neither the parameter's text nor a marker of the name.
Omitted(x) ==
    Range(script) \cap {x.prefix, StartTag(x.name), EndTag(x.name), Placeholder(x.name)} = {}

ExpectRendered(x) ==
    CASE x.how = "exact" -> x.off # 0
      [] x.how = "near" -> x.off > 10
      [] x.how = "group" -> x.off # 0 /\ x.group
      [] x.how = "always" -> TRUE

TemplateNames ==
    { "CHROMA_CX", "CHROMA_CY", "CHROMA_DECRAWL", "CHROMA_FIXES",
      "CHROMA_FIX_BLEEDING", "CHROMA_STRENGTH", "CHROMA_THR",
      "CHROMA_VINVERSE", "COLOR_BRIGHTNESS", "COLOR_CONTRAST",
      "COLOR_CORRECTION", "COLOR_HUE", "COLOR_LEVELS", "COLOR_SATURATION",
      "COLOR_TWEAK", "CROP_BOTTOM", "CROP_LEFT", "CROP_RIGHT", "CROP_TOP",
      "DEBAND", "DEBAND_CB", "DEBAND_CR", "DEBAND_GRAINC",
      "DEBAND_GRAINY", "DEBAND_OUTPUT_DEPTH", "DEBAND_RANGE", "DEBAND_Y",
      "DEBLOCK", "DEBLOCK_QED", "DEBLOCK_QUANT1", "DEBLOCK_QUANT2",
      "DEBLOCK_SIMPLE", "DECRAWL_CTHRESH", "DECRAWL_MAXDIFF",
      "DECRAWL_YTHRESH", "DEHALO", "DEHALO_BRIGHTSTR", "DEHALO_DARKSTR",
      "DEHALO_DEHALO_ALPHA", "DEHALO_FINE_DEHALO", "DEHALO_RX",
      "DEHALO_RY", "DEHALO_YAHR", "DEHALO_YAHR_BLUR", "DEHALO_YAHR_DEPTH",
      "DEINTERLACE", "FIELD_BASED", "FPS_DEN", "FPS_DIVISOR", "FPS_NUM",
      "INPUT_PATH", "LEVELS_GAMMA", "LEVELS_INPUT_HIGH",
      "LEVELS_INPUT_LOW", "LEVELS_OUTPUT_HIGH", "LEVELS_OUTPUT_LOW",
      "MAINTAIN_ASPECT", "NOISE_REDUCTION", "NR_BM3D", "NR_BM3D_SIGMA",
      "NR_MCTD", "NR_SIGMA", "NR_SMDEGRAIN", "NR_TH_SAD", "NR_TR",
      "OPENCL", "PRESET", "PRE_CROP", "RESIZE", "RESIZE_BICUBIC",
      "RESIZE_BILINEAR", "RESIZE_INTEGER_UPSCALE", "RESIZE_LANCZOS",
      "RESIZE_SPLINE36", "RESIZE_STANDARD", "SHARPEN", "SHARPEN_CAS",
      "SHARPEN_CAS_SHARPNESS", "SHARPEN_LSFMOD", "SHARPEN_OVERSHOOT",
      "SHARPEN_SOFT_EDGE", "SHARPEN_STRENGTH", "SHARPEN_UNDERSHOOT",
      "TARGET_HEIGHT", "TARGET_WIDTH", "TFF", "UPSCALE_EEDI3",
      "UPSCALE_FACTOR", "UPSCALE_NNEDI3", "VIDEO_PATH", "VINVERSE_AMNT",
      "VINVERSE_SSTR" }

TemplateSyntax ==
    UNION { {StartTag(n), EndTag(n), Placeholder(n)} : n \in TemplateNames }

\* C13: a written script holds no {{#NAME}}, {{/NAME}} or {{NAME}} token.
C13_NoTemplateSyntaxLeft ==
    gpc = "done" => Range(script) \cap TemplateSyntax = {}

C18_EffectivePipeline ==
    gpc = "done" =>
        LET p == effective_pipeline(gjob)
            others == DOMAIN p \ {"deinterlace"}
        IN  IF gjob.restoration_pipeline # None
            THEN p = gjob.restoration_pipeline[1]
            ELSE /\ p.deinterlace = gjob.qtgmc_parameters
                 /\ \A st \in others : ~p[st].enabled
                 /\ \A st \in others :
                        Range(script) \cap StageInvocations[st] = {}

\* A preview script was built for a job that has only a tuned legacy set.
C18_Witness ==
    /\ gpc = "done"
    /\ entry = "generate_preview"
    /\ gjob.restoration_pipeline = None
    /\ gjob.qtgmc_parameters # DefaultQTGMCParameters
    /\ Range(script) \cap StageInvocations.deinterlace # {}

\* The job with the deinterlace settings of its effective pipeline in the
\* place of the legacy parameter set.
WithStageSettings(j) == [j EXCEPT !.qtgmc_parameters = effective_pipeline(j).deinterlace]

\* C30: the deinterlace tunables rendered into the script are those of the
\* effective pipeline's deinterlace stage, the record whose enabled flag
\* keeps or drops the block: the script is the one rendered from that
\* stage's settings, also when the job carries a pipeline whose deinterlace
\* settings differ from qtgmc_parameters.
C30_StageSettingsRendered ==
    gpc = "done" =>
        script = IF entry = "generate"
                 THEN generate(WithStageSettings(gjob))
                 ELSE generate_preview(WithStageSettings(gjob), PreviewParamsOf(gjob))

(***************************************************************************)
(* SpecSub: one call of process_optional_int / _double / _bool / _string   *)
(* on a template of the placeholder grammar.                               *)
(***************************************************************************)
\* Parts of a template: plain text, a line break, a block of NUM on one line
\* and over several lines, a block of another name, a placeholder outside
\* any block, and a block of NUM inside a block of another name.  A line
\* break that directly follows a marker is a token of its own.
Pieces ==
    { << >>,
      << "prefix" >>,
      << "\n" >>,
      << "{{#NUM}}", "value=", "{{NUM}}", ",", "{{/NUM}}" >>,
      << "{{#NUM}}", "\n", "    num=", "{{NUM}}", ",\n", "{{/NUM}}", "\n" >>,
      << "{{#TEST}}", "content", "{{/TEST}}", "\n" >>,
      << "{{NUM}}" >>,
      << "{{#TEST}}", "\n", "{{#NUM}}", "{{NUM}}", "{{/NUM}}", "\n", "{{/TEST}}" >> }

\* Number of parts of a template.
MaxPieces == 3

RECURSIVE TemplatesOf(_)
TemplatesOf(n) ==
    IF n = 0 THEN { << >> }
    ELSE { t \o p : t \in TemplatesOf(n - 1), p \in Pieces }

Templates == TemplatesOf(MaxPieces)

\* Values handed to the four functions.
IntValues == { None, Some(3), Some(42) }
\* 2.0, 2.5, 0.125, 12.345, 1.23456, -0.5, 0.0, 100.0, 100.5, -3.0, 10.001,
\* 2.00001, 0.99999, -0.00001, 19.99996, 0.0007
DoubleValues ==
    { None, Some(200000), Some(250000), Some(12500), Some(1234500),
      Some(123456), Some(-50000), Some(0), Some(10000000), Some(10050000),
      Some(-300000), Some(1000100), Some(200001), Some(99999), Some(-1),
      Some(1999996), Some(70) }
BoolValues == { None, Some(TRUE), Some(FALSE) }
StringValues == { None, Some("Fast") }

Call(op, name, value, template) ==
    [op |-> op, name |-> name, value |-> value, template |-> template]

InitSub ==
    /\ InitAtGenerator
    /\ InitLibIdle
    /\ gpc = "template"
    /\ gjob = << >>
    /\ entry = "none"
    /\ script \in Templates

\* script = process_optional_int(name, value, script)
ProcessOptionalInt ==
    /\ gpc = "template"
    /\ \E name \in {"NUM", "TEST"}, value \in IntValues :
          /\ script' = process_optional_int(name, value, script)
          /\ gjob' = Call("process_optional_int", name, value, script)
    /\ gpc' = "substituted"
    /\ UNCHANGED <<entry, workerVars, libVars>>

\* script = process_optional_double(name, value, script)
ProcessOptionalDouble ==
    /\ gpc = "template"
    /\ \E value \in DoubleValues :
          /\ script' = process_optional_double("NUM", value, script)
          /\ gjob' = Call("process_optional_double", "NUM", value, script)
    /\ gpc' = "substituted"
    /\ UNCHANGED <<entry, workerVars, libVars>>

\* script = process_optional_bool(name, value, script)
ProcessOptionalBool ==
    /\ gpc = "template"
    /\ \E value \in BoolValues :
          /\ script' = process_optional_bool("NUM", value, script)
          /\ gjob' = Call("process_optional_bool", "NUM", value, script)
    /\ gpc' = "substituted"
    /\ UNCHANGED <<entry, workerVars, libVars>>

\* script = process_optional_string(name, value, script)
ProcessOptionalString ==
    /\ gpc = "template"
    /\ \E value \in StringValues :
          /\ script' = process_optional_string("NUM", value, script)
          /\ gjob' = Call("process_optional_string", "NUM", value, script)
    /\ gpc' = "substituted"
    /\ UNCHANGED <<entry, workerVars, libVars>>

NextSub ==
    \/ ProcessOptionalInt
    \/ ProcessOptionalDouble
    \/ ProcessOptionalBool
    \/ ProcessOptionalString

SpecSub == InitSub /\ [][NextSub]_vars

(***************************************************************************)
(* Properties of the substitution functions                                *)
(***************************************************************************)
\* Position i of template t lies in a block of `name`: between a start
\* marker and the first end marker after it, or is the line break that
\* directly follows that end marker.
InBlock(t, name, i) ==
    \E b \in 1..Len(t) :
        /\ t[b] = StartTag(name)
        /\ \E e \in b..Len(t) :
              /\ t[e] = EndTag(name)
              /\ \A k \in b..(e - 1) : t[k] # EndTag(name)
              /\ \/ b <= i /\ i <= e
                 \/ i = e + 1 /\ t[i] = "\n"

\* The template without its blocks of `name`.
RECURSIVE OutsideFrom(_, _, _)
OutsideFrom(t, name, i) ==
    IF i > Len(t) THEN << >>
    ELSE (IF InBlock(t, name, i) THEN << >> ELSE << t[i] >>)
             \o OutsideFrom(t, name, i + 1)

Outside(t, name) == OutsideFrom(t, name, 1)

Occurrences(s, tok) == Cardinality({i \in DOMAIN s : s[i] = tok})

\* C11: with no value, every block of the name - start marker, content, end
\* marker and the line break directly after it - is deleted, no start marker
\* of the name remains, and the text outside the blocks is unchanged.
C11_AbsentValueRemovesEveryBlock ==
    (gpc = "substituted" /\ gjob.value = None) =>
        /\ script = Outside(gjob.template, gjob.name)
        /\ Occurrences(script, StartTag(gjob.name)) = 0
        /\ Occurrences(script, EndTag(gjob.name)) = 0

\* A template in which the name has three blocks, rendered without a value.
C11_Witness ==
    /\ gpc = "substituted"
    /\ gjob.value = None
    /\ Occurrences(gjob.template, StartTag(gjob.name)) = 3
    /\ Occurrences(script, StartTag(gjob.name)) = 0
    /\ Len(script) > 0

\* The characters of a value (in units of 1/(Unit * Fine)) printed with four
\* decimal digits.
FourDecimals(v) ==
    LET r == (Abs(v) + 5) \div 10
        digit(k) == ToString((r \div k) % 10)
    IN  (IF v < 0 THEN << "-" >> ELSE << >>)
            \o << ToString(r \div 10000), ".",
                  digit(1000), digit(100), digit(10), digit(1) >>

\* The characters without the run of c at their end.
RECURSIVE TrimEnd(_, _)
TrimEnd(chars, c) ==
    IF chars # << >> /\ chars[Len(chars)] = c
    THEN TrimEnd(SubSeq(chars, 1, Len(chars) - 1), c)
    ELSE chars

RECURSIVE Concat(_)
Concat(chars) == IF chars = << >> THEN "" ELSE Head(chars) \o Concat(Tail(chars))

\* The text the description prescribes for a value.
PrescribedDouble(v) ==
    IF v % 100000 = 0
    THEN ToString(v \div 100000) \o ".0"
    ELSE Concat(TrimEnd(TrimEnd(FourDecimals(v), "0"), "."))

DoubleCall ==
    /\ gpc = "substituted"
    /\ gjob.op = "process_optional_double"
    /\ gjob.value # None
    /\ Placeholder(gjob.name) \in Range(gjob.template)

\* C19: a value without fractional part is rendered with exactly one decimal
\* digit, any other value with four decimal digits from which trailing zeros
\* and then a trailing decimal point are stripped: the text put in place of
\* the placeholder is the prescribed one, for every value of DoubleValues.
C19_DoubleFormatting ==
    DoubleCall =>
        /\ Placeholder(gjob.name) \notin Range(script)
        /\ PrescribedDouble(gjob.value[1]) \in Range(script)
        /\ \A i \in DOMAIN script :
               script[i] \notin Range(gjob.template) =>
                   script[i] = PrescribedDouble(gjob.value[1])

\* 2.0 was rendered as "2.0" in place of the placeholder.
C19_Witness ==
    /\ DoubleCall
    /\ gjob.value = Some(200000)
    /\ "2.0" \in Range(script)
    /\ Placeholder(gjob.name) \notin Range(script)

(***************************************************************************)
(* SpecReporter: the calling thread and the background reader of one       *)
(* execute call, each sending up to MaxSends messages through its clone of *)
(* the reporter (pipeline_executor.rs:101, 123).                           *)
(***************************************************************************)
Sending(A) == A /\ UNCHANGED <<workerVars, genVars, registryVars>>

NextReporter ==
    \/ \E t \in Threads : Sending(SendLock(t))
    \/ \E t \in Threads : Sending(SendSerialize(t))
    \/ \E t \in Threads : Sending(SendLockStdout(t))
    \/ \E t \in Threads : Sending(SendWrite(t))
    \/ \E t \in Threads : Sending(SendFlush(t))
    \/ \E t \in Threads : Sending(SendUnlock(t))

SpecReporter == InitLoop /\ [][NextReporter]_vars

\* Thread t is inside send_message, between taking and dropping output_lock.
InWriteSection(t) == ~At(t, "idle")

\* The pieces of one message are next to each other in the output.
Contiguous(out) ==
    \A i, j \in DOMAIN out :
        (i < j /\ out[i].by = out[j].by /\ out[i].n = out[j].n) =>
            \A k \in i..j : out[k].by = out[i].by /\ out[k].n = out[i].n

\* C22: events sent concurrently by the calling thread and the background
\* reader are written one whole message at a time: at most one thread is
\* inside the write section of send_message, and the thread inside it holds
\* output_lock, so the pieces of two messages are never interleaved.
C22_OneWriterAtATime ==
    /\ Cardinality({t \in Threads : InWriteSection(t)}) <= 1
    /\ \A t \in Threads : InWriteSection(t) => output_lock = t
    /\ Contiguous(stdout)

\* The reader is writing its second message while the calling thread, which
\* has written one, waits for the lock.
C22_Witness ==
    /\ At("reader", "newline")
    /\ senders["reader"].n = 1
    /\ At("main", "idle")
    /\ senders["main"].n = 1
    /\ Len(stdout) = 5

(***************************************************************************)
(* SpecRegistry: register called up to MaxRegisterCalls times on a new     *)
(* FilterRegistry.                                                         *)
(***************************************************************************)
InitRegistrySpec == InitAtGenerator /\ InitGenIdle /\ InitLibIdle

RegisterCall ==
    \E schema \in Schemas :
        /\ Register(schema)
        /\ UNCHANGED <<workerVars, genVars, reporterVars>>

NextRegistry == RegisterCall

SpecRegistry == InitRegistrySpec /\ [][NextRegistry]_vars

\* The schemas registered, each id once at the place of its last
\* registration and with the schema given then.
RECURSIVE LoadOrderOf(_)
LoadOrderOf(registered) ==
    IF registered = << >> THEN << >>
    ELSE LET last == registered[Len(registered)]
             before == SubSeq(registered, 1, Len(registered) - 1)
         IN  Append(SelectSeq(LoadOrderOf(before), LAMBDA x : x.id # last.id), last)

\* C26: after any sequence of register calls, filters() yields every
\* registered filter exactly once, in load order, a registration of an
\* existing id replacing its schema and moving it to the end; get and has
\* agree with that set.
C26_FiltersInLoadOrder ==
    LET expected == LoadOrderOf(calls)
    IN  /\ filters_in_load_order(load_order, filters) = expected
        /\ \A id \in FilterIds :
               /\ has(filters, id) <=> \E i \in DOMAIN expected : expected[i].id = id
               /\ \A i \in DOMAIN expected :
                      expected[i].id = id => get(filters, id) = << expected[i] >>

====
